---- MODULE Spec2Model ----
(***************************************************************************)
(* Model of the security / rate-limiting subsystem of jobpay-backend:      *)
(* RedisService.executeOperation, RedisSecurityService (request tracker),  *)
(* RedisIpBlockingService (block registry and attempt counters),           *)
(* RedisPerformanceService.recordMetric and SecurityMiddleware.use.        *)
(*                                                                         *)
(* Time is in milliseconds (Date.now()).  Keys with a TTL carry the        *)
(* instant at which the store drops them; the store is modelled with the   *)
(* key spaces the services use.  Every operation is one atomic step; a     *)
(* store command that rejects inside an operation is the input f.          *)
(***************************************************************************)
EXTENDS Integers, Sequences, FiniteSets, TLC

VARIABLES
  now,          \* Date.now() of the process and clock of the store
  redis,        \* RedisService.redis: TRUE when a client object exists
  isConnected,  \* RedisService.isConnected
  req,          \* security:request_tracking:<ip>:<kind>:<window> -> [n, exp]
  suspicious,   \* security:suspicious_ips:<ip> -> [data, exp]
  blocked,      \* hash security:blocked_ips: ip -> JSON of BlockedIP
  attempts,     \* security:suspicious_activity:<ip> -> [n, exp]
  details,      \* security:suspicious_activity:<ip>:details -> [h, exp]
  metrics,      \* performance:metrics:<key> -> [m, exp]
  sortedSet,    \* performance:metrics_sorted: member -> score
  stats,        \* performance:system_stats:current -> [h, exp]
  inflight,     \* requests passed on by use() whose response has not finished
  lastOp,       \* the last call made and what it returned
  hist,         \* history of the calls made (what the properties speak about)
  application   \* the row of prisma.application for one applicant and job

vars == <<now, redis, isConnected, req, suspicious, blocked, attempts,
          details, metrics, sortedSet, stats, inflight, lastOp, hist,
          application>>

\* prisma.application.findUnique finds no row
NoApplication == [status |-> "none"]

(***************************************************************************)
(* Bounds of the model.                                                    *)
(***************************************************************************)
MaxTicks == 2
MaxCalls == 10
MaxTracked == 3
MaxMetrics == 2
MaxInflight == 1
MaxAdmin == 2
MaxOps == 2
MaxSamples == 21
MaxLoad == 100
MaxConcurrent == 6
MaxAppends == 3

(***************************************************************************)
(* Program constants.                                                      *)
(***************************************************************************)
MinuteMs == 60000
HourMs == 3600000
MinuteTtlSec == 60
HourTtlSec == 3600
maxRequestsPerMinute == 500
maxRequestsPerHour == 5000
DdosThreshold == 1000
SuspiciousTtlSec == 86400
ActivityTtlSec == 3600
AutoBlockAttempts == 5
AutoBlockMinutes == 60
MaliciousBlockMinutes == 1440
MaxContentLength == 52428800
MetricTtlSec == 86400
DayMs == 86400000
RecentMs == 300000

(***************************************************************************)
(* Inputs.                                                                 *)
(***************************************************************************)
\* client identifiers, as the octets of the address
Clients == { <<1, 2, 3, 4>>, <<203, 0, 113, 5>> }

\* the durationMinutes argument of blockIp: omitted, or a number
NoDuration == [supplied |-> FALSE, minutes |-> 0]
Minutes(d) == [supplied |-> TRUE, minutes |-> d]
Durations == { NoDuration, Minutes(0), Minutes(60) }

\* reasons are texts, kept as the sequence of their parts
Reasons == { <<"abuse">> }
Activities == { "Failed authentication" }

\* messages of the errors a store command rejects with
ErrorMessages == { "ECONNRESET", "Command timed out" }

\* the store commands of the operations, as places where a command can reject
FailSites == { "trackRequest.exec", "addToSuspiciousIps.get",
               "addToSuspiciousIps.setex", "shouldRateLimit.get",
               "blockIp.hset", "blockIp.expire", "unblockIp.hdel",
               "isBlocked.hget", "trackSuspiciousActivity.incr",
               "trackSuspiciousActivity.expire",
               "trackSuspiciousActivity.hset",
               "trackSuspiciousActivity.expireDetails",
               "trackSuspiciousActivity.del", "getBlockedIps.hgetall",
               "getStats.hlen", "getStats.hgetall",
               "importMaliciousIpList.exec", "recordMetric.setex",
               "recordMetric.zadd", "recordMetric.zremrangebyscore",
               "getSystemMetrics.zrangebyscore", "getSystemMetrics.mget",
               "updateSystemStats.exec", "clearSuspiciousIp.del" }
NoFail == [at |-> "none", msg |-> "none"]

(***************************************************************************)
(* Helpers for maps with a changing key set.                               *)
(***************************************************************************)
Put(f, k, v) == [x \in (DOMAIN f) \cup {k} |-> IF x = k THEN v ELSE f[x]]
Del(f, k) == [x \in (DOMAIN f) \ {k} |-> f[x]]
Empty == [x \in {} |-> {}]
Max(a, b) == IF a > b THEN a ELSE b

\* Math.floor(now / size)
Window(t, size) == t \div size

\* a key without a TTL is written with exp = NoTtl
NoTtl == -1

\* the store drops a key once its expiry instant is reached
Live(f, t) ==
  [k \in {x \in DOMAIN f : f[x].exp = NoTtl \/ f[x].exp > t} |-> f[k]]

(***************************************************************************)
(* The state the services work on, as one value W, so that an operation    *)
(* that calls another one passes the store on.                             *)
(***************************************************************************)
World == [now |-> now, redis |-> redis, isConnected |-> isConnected,
          req |-> req, suspicious |-> suspicious, blocked |-> blocked,
          attempts |-> attempts, details |-> details, metrics |-> metrics,
          sortedSet |-> sortedSet, stats |-> stats, log |-> <<>>]

\* W.log lists the calls into the services made during one step
Logged(W, call) == [W EXCEPT !.log = Append(@, call)]

\* the stored entities of W (all of the store, without the process's fields)
Stored(W) == [req |-> W.req, suspicious |-> W.suspicious,
              blocked |-> W.blocked, attempts |-> W.attempts,
              details |-> W.details, metrics |-> W.metrics,
              sortedSet |-> W.sortedSet, stats |-> W.stats]

\* outcome of the body of an operation: it returned, or a command rejected
Return(W, ret) == [W |-> W, threw |-> FALSE, msg |-> "none", ret |-> ret]
Reject(W, msg) == [W |-> W, threw |-> TRUE, msg |-> msg, ret |-> "none"]
FailsAt(f, site) == f.at = site

(***************************************************************************)
(* RedisService                                                            *)
(***************************************************************************)
isAvailableWithClient(W) == W.redis
isAvailable(W) == W.isConnected /\ W.redis

\* a narrower test of the message: only a refused connection counts
IsConnectionErrorRefusedOnly(msg) == msg \in { "ECONNREFUSED" }

IsConnectionError(msg) ==
  msg \in { "ECONNRESET", "ECONNREFUSED", "MaxRetriesPerRequestError",
            "Connection is closed" }

\* the catch block of executeOperation logs the error
Caught(W, msg) == Logged(W, [op |-> "error", msg |-> msg])

\* executeOperation(operation, fallback): body is what operation(redis) does
\* on W; it is looked at only when the store is available.
executeOperation(W, body, fallback) ==
  IF ~isAvailable(W)
  THEN [W |-> W, ret |-> fallback, threw |-> FALSE]
  ELSE IF body.threw
       THEN [W |-> IF IsConnectionError(body.msg)
                   THEN [Caught(body.W, body.msg) EXCEPT !.isConnected = FALSE]
                   ELSE Caught(body.W, body.msg),
             ret |-> fallback, threw |-> FALSE]
       ELSE [W |-> body.W, ret |-> body.ret, threw |-> FALSE]

(***************************************************************************)
(* RedisIpBlockingService                                                  *)
(***************************************************************************)
\* JSON.stringify / JSON.parse of a Date: the ISO string of the instant
DateToJSON(ms) == [iso |-> ms]
NewDate(j) == j.iso

\* durationMinutes as a condition: undefined and 0 are falsy
Truthy(dur) == dur.supplied /\ dur.minutes # 0

\* JSON.stringify(blockedIP): a field that is undefined is left out
BlockedIPJsonIfSupplied(ip, reason, t, dur) ==
  IF Truthy(dur)
  THEN [ip |-> ip, reason |-> reason, blockedAt |-> DateToJSON(t),
        expiresAt |-> DateToJSON(t + dur.minutes * 60000),
        isTemporary |-> dur.supplied]
  ELSE [ip |-> ip, reason |-> reason, blockedAt |-> DateToJSON(t),
        isTemporary |-> dur.supplied]
BlockedIPJson(ip, reason, t, dur) ==
  IF Truthy(dur)
  THEN [ip |-> ip, reason |-> reason, blockedAt |-> DateToJSON(t),
        expiresAt |-> DateToJSON(t + dur.minutes * 60000),
        isTemporary |-> TRUE]
  ELSE [ip |-> ip, reason |-> reason, blockedAt |-> DateToJSON(t),
        isTemporary |-> FALSE]

blockIpBody(W, ip, reason, dur, f) ==
  IF FailsAt(f, "blockIp.hset") THEN Reject(W, f.msg)
  ELSE LET W1 == [W EXCEPT !.blocked =
                     Put(W.blocked, ip, BlockedIPJson(ip, reason, W.now, dur))]
       IN  \* the expire goes to the key blocked_ips:<ip>, which no one sets
           IF Truthy(dur) /\ FailsAt(f, "blockIp.expire")
           THEN Reject(W1, f.msg)
           ELSE Return(W1, "undefined")

blockIp(W0, ip, reason, dur, f) ==
  LET W == Logged(W0, [op |-> "blockIp", ip |-> ip, dur |-> dur])
  IN  executeOperation(W, blockIpBody(W, ip, reason, dur, f), "undefined")

\* removed > 0, on the number of fields hdel deleted
WasRemovedOrNot(removed) == removed >= 0
WasRemoved(removed) == removed > 0

unblockIpBody(W, ip, f) ==
  IF FailsAt(f, "unblockIp.hdel") THEN Reject(W, f.msg)
  ELSE LET removed == IF ip \in DOMAIN W.blocked THEN 1 ELSE 0
       IN  Return([W EXCEPT !.blocked = Del(W.blocked, ip)],
                  WasRemoved(removed))

unblockIp(W0, ip, f) ==
  LET W == Logged(W0, [op |-> "unblockIp", ip |-> ip])
  IN  executeOperation(W, unblockIpBody(W, ip, f), FALSE)

\* the condition of the lazy expiry on the parsed record
\* a variant for which a block ends at the instant expiresAt
HasExpiredAtExpiry(b, t) ==
  /\ b.isTemporary
  /\ "expiresAt" \in DOMAIN b
  /\ t >= NewDate(b.expiresAt)
HasExpired(b, t) ==
  /\ b.isTemporary
  /\ "expiresAt" \in DOMAIN b
  /\ t > NewDate(b.expiresAt)

isBlockedBody(W, ip, f) ==
  IF FailsAt(f, "isBlocked.hget") THEN Reject(W, f.msg)
  ELSE IF ip \notin DOMAIN W.blocked THEN Return(W, FALSE)
  ELSE IF HasExpired(W.blocked[ip], W.now)
       THEN Return(unblockIp(W, ip, f).W, FALSE)
       ELSE Return(W, TRUE)

isBlockedFailClosed(W0, ip, f) ==
  LET W == Logged(W0, [op |-> "isBlocked", ip |-> ip])
  IN  executeOperation(W, isBlockedBody(W, ip, f), TRUE)
isBlocked(W0, ip, f) ==
  LET W == Logged(W0, [op |-> "isBlocked", ip |-> ip])
  IN  executeOperation(W, isBlockedBody(W, ip, f), FALSE)

getBlockedIpsBody(W, f) ==
  IF FailsAt(f, "getBlockedIps.hgetall") THEN Reject(W, f.msg)
  ELSE Return(W, { W.blocked[ip] : ip \in DOMAIN W.blocked })

getBlockedIps(W, f) == executeOperation(W, getBlockedIpsBody(W, f), {})

getStatsBody(W, f) ==
  IF FailsAt(f, "getStats.hlen") THEN Reject(W, f.msg)
  ELSE
  LET totalBlocked == Cardinality(DOMAIN W.blocked)
      \* the keys of the pattern without those of the details
      suspiciousIps == Cardinality(DOMAIN W.attempts)
  IN
  IF FailsAt(f, "getStats.hgetall") THEN Reject(W, f.msg)
  ELSE
  LET temporaryBlocks ==
        Cardinality({ip \in DOMAIN W.blocked : W.blocked[ip].isTemporary})
  IN  Return(W, [totalBlocked |-> totalBlocked,
                 temporaryBlocks |-> temporaryBlocks,
                 permanentBlocks |-> totalBlocked - temporaryBlocks,
                 suspiciousIps |-> suspiciousIps])

getStats(W, f) ==
  executeOperation(W, getStatsBody(W, f),
                   [totalBlocked |-> 0, temporaryBlocks |-> 0,
                    permanentBlocks |-> 0, suspiciousIps |-> 0])

\* the reason of the automatic block
EscalationReason(activity) == <<"Multiple suspicious activities", activity>>

\* redis.incr on a key with a TTL: a missing key counts from 0, the TTL stays
Incr(f, k) ==
  IF k \in DOMAIN f THEN Put(f, k, [f[k] EXCEPT !.n = @ + 1])
  ELSE Put(f, k, [n |-> 1, exp |-> NoTtl])

\* redis.expire(key, seconds)
Expire(f, k, seconds, t) ==
  IF k \in DOMAIN f THEN Put(f, k, [f[k] EXCEPT !.exp = t + seconds * 1000])
  ELSE f

\* attempts >= 5
ShouldAutoBlockAbove(n) == n > AutoBlockAttempts
ShouldAutoBlock(n) == n >= AutoBlockAttempts

\* redis.del(activityKey, `${activityKey}:details`) after the block
AfterEscalationClearing(W, ip) ==
  [W EXCEPT !.attempts = Del(W.attempts, ip),
            !.details = Del(W.details, ip),
            !.suspicious = Del(W.suspicious, ip)]
AfterEscalation(W, ip) ==
  [W EXCEPT !.attempts = Del(W.attempts, ip),
            !.details = Del(W.details, ip)]

trackSuspiciousActivityBody(W, ip, activity, f) ==
  IF FailsAt(f, "trackSuspiciousActivity.incr") THEN Reject(W, f.msg)
  ELSE
  LET W1 == [W EXCEPT !.attempts = Incr(W.attempts, ip)]
      n  == W1.attempts[ip].n
  IN
  IF n = 1 /\ FailsAt(f, "trackSuspiciousActivity.expire")
  THEN Reject(W1, f.msg)
  ELSE
  LET W2 == IF n = 1
            THEN [W1 EXCEPT !.attempts =
                    Expire(W1.attempts, ip, ActivityTtlSec, W.now)]
            ELSE W1
  IN
  IF FailsAt(f, "trackSuspiciousActivity.hset") THEN Reject(W2, f.msg)
  ELSE
  LET old == IF ip \in DOMAIN W2.details THEN W2.details[ip].exp ELSE NoTtl
      W3  == [W2 EXCEPT !.details =
                Put(W2.details, ip,
                    [lastAttempt |-> W.now, activity |-> activity,
                     exp |-> old])]
  IN
  IF FailsAt(f, "trackSuspiciousActivity.expireDetails")
  THEN Reject(W3, f.msg)
  ELSE
  LET W4 == [W3 EXCEPT !.details =
                Expire(W3.details, ip, ActivityTtlSec, W.now)]
  IN
  IF ShouldAutoBlock(n)
  THEN LET W5 == blockIp(W4, ip, EscalationReason(activity),
                         Minutes(AutoBlockMinutes), f).W
       IN  IF FailsAt(f, "trackSuspiciousActivity.del")
           THEN Reject(W5, f.msg)
           ELSE Return(AfterEscalation(W5, ip), "undefined")
  ELSE Return(W4, "undefined")

trackSuspiciousActivity(W0, ip, activity, f) ==
  LET W == Logged(W0, [op |-> "trackSuspiciousActivity", ip |-> ip])
  IN
  executeOperation(W, trackSuspiciousActivityBody(W, ip, activity, f),
                   "undefined")

\* the pipeline of importMaliciousIpList writes one permanent record per ip
RECURSIVE ImportAll(_, _, _, _)
ImportAll(b, ips, reason, t) ==
  IF ips = {} THEN b
  ELSE LET ip == CHOOSE x \in ips : TRUE
       IN  ImportAll(Put(b, ip, BlockedIPJson(ip, reason, t, NoDuration)),
                     ips \ {ip}, reason, t)

importMaliciousIpListBody(W, ips, reason, f) ==
  IF FailsAt(f, "importMaliciousIpList.exec") THEN Reject(W, f.msg)
  ELSE Return([W EXCEPT !.blocked = ImportAll(W.blocked, ips, reason, W.now)],
              "undefined")

importMaliciousIpList(W0, ips, reason, f) ==
  LET W == Logged(W0, [op |-> "importMaliciousIpList", ips |-> ips])
  IN
  executeOperation(W, importMaliciousIpListBody(W, ips, reason, f),
                   "undefined")

(***************************************************************************)
(* RedisSecurityService                                                    *)
(***************************************************************************)
\* the key of a request counter: <prefix>:<ip>:<kind>:<window>
ReqKeyWithoutWindow(ip, kind, w) == [ip |-> ip, kind |-> kind, w |-> 0]
ReqKey(ip, kind, w) == [ip |-> ip, kind |-> kind, w |-> w]

\* `High request rate: ${minuteCount}/min, ${hourCount}/hour`
RateReason(m, h) == [text |-> "High request rate", minute |-> m, hour |-> h]

\* a variant that keeps the latest reason only
SuspiciousDataLatestReason(W, ip, reason) ==
  IF ip \in DOMAIN W.suspicious
  THEN LET parsed == W.suspicious[ip].data
       IN  [parsed EXCEPT !.reasons = <<reason>>,
                          !.lastSeen = W.now,
                          !.count = parsed.count + 1,
                          !.severity = IF parsed.count > 5 THEN "high"
                                       ELSE "medium"]
  ELSE [ip |-> ip, reasons |-> <<reason>>, firstSeen |-> W.now,
        lastSeen |-> W.now, count |-> 1, severity |-> "medium"]

\* the record addToSuspiciousIps writes, from the one it read (if any)
SuspiciousData(W, ip, reason) ==
  IF ip \in DOMAIN W.suspicious
  THEN LET parsed == W.suspicious[ip].data
       IN  [parsed EXCEPT !.reasons = Append(parsed.reasons, reason),
                          !.lastSeen = W.now,
                          !.count = parsed.count + 1,
                          !.severity = IF parsed.count > 5 THEN "high"
                                       ELSE "medium"]
  ELSE [ip |-> ip, reasons |-> <<reason>>, firstSeen |-> W.now,
        lastSeen |-> W.now, count |-> 1, severity |-> "medium"]

\* the operation of addToSuspiciousIps: get, JSON.parse, setex
addToSuspiciousIpsBodyBlocking(W, ip, reason, f) ==
  IF FailsAt(f, "addToSuspiciousIps.get") THEN Reject(W, f.msg)
  ELSE LET data == SuspiciousData(W, ip, reason)
           W1 == [W EXCEPT !.suspicious =
                    Put(W.suspicious, ip,
                        [data |-> data,
                         exp |-> W.now + SuspiciousTtlSec * 1000])]
       IN  Return(IF data.count > 5
                  THEN blockIp(W1, ip, <<"High request rate">>,
                               Minutes(AutoBlockMinutes), f).W
                  ELSE W1,
                  "undefined")
addToSuspiciousIpsBody(W, ip, reason, f) ==
  IF FailsAt(f, "addToSuspiciousIps.get") THEN Reject(W, f.msg)
  ELSE IF FailsAt(f, "addToSuspiciousIps.setex") THEN Reject(W, f.msg)
  ELSE Return([W EXCEPT !.suspicious =
                 Put(W.suspicious, ip,
                     [data |-> SuspiciousData(W, ip, reason),
                      exp |-> W.now + SuspiciousTtlSec * 1000])],
              "undefined")

addToSuspiciousIps(W0, ip, reason, f) ==
  LET W == Logged(W0, [op |-> "addToSuspiciousIps", ip |-> ip])
  IN  executeOperation(W, addToSuspiciousIpsBody(W, ip, reason, f),
                       "undefined")

\* clearSuspiciousIp(clientIp): RedisService.del and result > 0
clearSuspiciousIp(W0, ip, f) ==
  LET W == Logged(W0, [op |-> "clearSuspiciousIp", ip |-> ip])
      body == IF FailsAt(f, "clearSuspiciousIp.del") THEN Reject(W, f.msg)
              ELSE Return([W EXCEPT !.suspicious = Del(W.suspicious, ip)],
                          IF ip \in DOMAIN W.suspicious THEN 1 ELSE 0)
      r == executeOperation(W, body, 0)
  IN  [r EXCEPT !.ret = r.ret > 0]

\* the pipeline of trackRequest: incr and expire of the two counters
TrackPipeline(r, ip, t) ==
  LET minuteKey == ReqKey(ip, "minute", Window(t, MinuteMs))
      hourKey   == ReqKey(ip, "hour", Window(t, HourMs))
      r1 == Expire(Incr(r, minuteKey), minuteKey, MinuteTtlSec, t)
  IN  Expire(Incr(r1, hourKey), hourKey, HourTtlSec, t)

\* minuteCount > maxRequestsPerMinute || hourCount > maxRequestsPerHour
IsOverLimitFrom(minuteCount, hourCount) ==
  minuteCount >= maxRequestsPerMinute \/ hourCount >= maxRequestsPerHour
IsOverLimit(minuteCount, hourCount) ==
  minuteCount > maxRequestsPerMinute \/ hourCount > maxRequestsPerHour

trackRequestFallback == [isBlocked |-> FALSE, isDdos |-> FALSE,
                         requestCount |-> 0]

trackRequestBody(W, clientIp, f) ==
  IF FailsAt(f, "trackRequest.exec") THEN Reject(W, f.msg)
  ELSE
  LET W1 == [W EXCEPT !.req = TrackPipeline(W.req, clientIp, W.now)]
      minuteCount ==
        W1.req[ReqKey(clientIp, "minute", Window(W.now, MinuteMs))].n
      hourCount == W1.req[ReqKey(clientIp, "hour", Window(W.now, HourMs))].n
      isBlockedV == IsOverLimit(minuteCount, hourCount)
      isDdos == minuteCount > DdosThreshold
      W2 == IF isBlockedV \/ isDdos
            THEN addToSuspiciousIps(W1, clientIp,
                                    RateReason(minuteCount, hourCount), f).W
            ELSE W1
  IN  Return(W2, [isBlocked |-> isBlockedV, isDdos |-> isDdos,
                  requestCount |-> minuteCount])

trackRequest(W0, clientIp, f) ==
  LET W == Logged(W0, [op |-> "trackRequest", ip |-> clientIp])
  IN  executeOperation(W, trackRequestBody(W, clientIp, f),
                       trackRequestFallback)

shouldRateLimitFallback(t) ==
  [shouldLimit |-> FALSE, remainingRequests |-> 500, resetTime |-> t + 60000]

\* a variant that counts the request it is asked about
shouldRateLimitBodyCounting(W, clientIp, f) ==
  LET W1 == [W EXCEPT !.req = TrackPipeline(W.req, clientIp, W.now)]
      minuteWindow == Window(W.now, MinuteMs)
      requestCount == W1.req[ReqKey(clientIp, "minute", minuteWindow)].n - 1
  IN  Return(W1, [shouldLimit |-> requestCount >= maxRequestsPerMinute,
                  remainingRequests |->
                    Max(0, maxRequestsPerMinute - requestCount),
                  resetTime |-> (minuteWindow + 1) * 60000])

shouldRateLimitBody(W, clientIp, f) ==
  IF FailsAt(f, "shouldRateLimit.get") THEN Reject(W, f.msg)
  ELSE
  LET minuteWindow == Window(W.now, MinuteMs)
      key == ReqKey(clientIp, "minute", minuteWindow)
      requestCount == IF key \in DOMAIN W.req THEN W.req[key].n ELSE 0
  IN  Return(W, [shouldLimit |-> requestCount >= maxRequestsPerMinute,
                 remainingRequests |->
                   Max(0, maxRequestsPerMinute - requestCount),
                 resetTime |-> (minuteWindow + 1) * 60000])

shouldRateLimit(W0, clientIp, f) ==
  LET W == Logged(W0, [op |-> "shouldRateLimit", ip |-> clientIp])
  IN  executeOperation(W, shouldRateLimitBody(W, clientIp, f),
                       shouldRateLimitFallback(W.now))

(***************************************************************************)
(* RedisPerformanceService                                                 *)
(***************************************************************************)
\* `${METRICS_KEY}:${Date.now()}:${Math.random()}`: a key not yet in use
MetricKey(W) ==
  [t |-> W.now,
   r |-> Cardinality({k \in DOMAIN W.metrics : k.t = W.now})]

updateSystemStatsBody(W, metric, f) ==
  IF FailsAt(f, "updateSystemStats.exec") THEN Reject(W, f.msg)
  ELSE
  LET old == IF "current" \in DOMAIN W.stats THEN W.stats["current"]
             ELSE [total_requests |-> 0, successful_requests |-> 0,
                   failed_requests |-> 0, exp |-> NoTtl]
      ok  == metric.statusCode >= 200 /\ metric.statusCode < 400
      new == [total_requests |-> old.total_requests + 1,
              successful_requests |->
                old.successful_requests + (IF ok THEN 1 ELSE 0),
              failed_requests |-> old.failed_requests + (IF ok THEN 0 ELSE 1),
              exp |-> W.now + 3600 * 1000]
  IN  Return([W EXCEPT !.stats = Put(W.stats, "current", new)], "undefined")

updateSystemStats(W0, metric, f) ==
  LET W == Logged(W0, [op |-> "updateSystemStats"])
  IN  executeOperation(W, updateSystemStatsBody(W, metric, f), "undefined")

recordMetricBody(W, endpoint, method, responseTime, statusCode, f) ==
  LET metric == [endpoint |-> endpoint, method |-> method,
                 responseTime |-> responseTime,
                 timestamp |-> DateToJSON(W.now), statusCode |-> statusCode]
      metricKey == MetricKey(W)
      oneDayAgo == W.now - DayMs
  IN
  IF FailsAt(f, "recordMetric.setex") THEN Reject(W, f.msg)
  ELSE
  LET W1 == [W EXCEPT !.metrics =
                Put(W.metrics, metricKey,
                    [m |-> metric, exp |-> W.now + MetricTtlSec * 1000])]
  IN
  IF FailsAt(f, "recordMetric.zadd") THEN Reject(W1, f.msg)
  ELSE
  LET W2 == [W1 EXCEPT !.sortedSet = Put(W1.sortedSet, metricKey, W.now)]
  IN
  IF FailsAt(f, "recordMetric.zremrangebyscore") THEN Reject(W2, f.msg)
  ELSE
  LET kept == {k \in DOMAIN W2.sortedSet :
                 ~(W2.sortedSet[k] >= 0 /\ W2.sortedSet[k] <= oneDayAgo)}
      W3 == [W2 EXCEPT !.sortedSet = [k \in kept |-> W2.sortedSet[k]]]
  IN  Return(updateSystemStats(W3, metric, f).W, "undefined")

recordMetric(W0, endpoint, method, responseTime, statusCode, f) ==
  LET W == Logged(W0, [op |-> "recordMetric"])
  IN  executeOperation(
        W, recordMetricBody(W, endpoint, method, responseTime, statusCode, f),
        "undefined")

\* ---- getSystemMetrics ----
\* zrangebyscore returns the members by ascending score, and members of one
\* score in the order of their keys
RECURSIVE InScoreOrder(_, _)
InScoreOrder(score, S) ==
  IF S = {} THEN <<>>
  ELSE LET Before(k, j) ==
             \/ score[k] < score[j]
             \/ /\ score[k] = score[j]
                /\ (k.t < j.t \/ (k.t = j.t /\ k.r <= j.r))
           first == CHOOSE x \in S : \A j \in S : Before(x, j)
       IN  <<first>> \o InScoreOrder(score, S \ {first})

zrangebyscore(W, min, max) ==
  InScoreOrder(W.sortedSet,
               {k \in DOMAIN W.sortedSet :
                  W.sortedSet[k] >= min /\ W.sortedSet[k] <= max})

\* mget answers null for a key that is not stored; the loop skips those
RECURSIVE StoredMetrics(_, _)
StoredMetrics(W, keys) ==
  IF keys = <<>> THEN <<>>
  ELSE (IF Head(keys) \in DOMAIN W.metrics
        THEN <<W.metrics[Head(keys)].m>> ELSE <<>>)
       \o StoredMetrics(W, Tail(keys))

\* a variant that leaves the list in the order it was read
SortKeepingOrder(seq) == seq

\* Array.prototype.sort((a, b) => a - b)
RECURSIVE InsertAscending(_, _)
InsertAscending(x, seq) ==
  IF seq = <<>> THEN <<x>>
  ELSE IF x - Head(seq) < 0 THEN <<x>> \o seq
  ELSE <<Head(seq)>> \o InsertAscending(x, Tail(seq))

RECURSIVE SortAscending(_)
SortAscending(seq) ==
  IF seq = <<>> THEN <<>>
  ELSE InsertAscending(Head(seq), SortAscending(Tail(seq)))

RECURSIVE SumOf(_)
SumOf(seq) == IF seq = <<>> THEN 0 ELSE Head(seq) + SumOf(Tail(seq))

\* a quotient of two numbers is kept as the fraction it is
Quotient(a, b) == [num |-> a, den |-> b]

\* Math.floor(length * 0.95), Math.floor(length * 0.99)
PercentileIndex(length, percent) == (length * percent) \div 100

\* array[index] || 0, the array indexed from 0
ElementOrZero(array, index) ==
  IF index + 1 \in DOMAIN array THEN array[index + 1] ELSE 0

getSystemMetricsFallback ==
  [responseTime |-> [average |-> Quotient(0, 1), p95 |-> 0, p99 |-> 0],
   requestCount |-> [total |-> 0, successful |-> 0, failed |-> 0]]

\* cpuUsage and memoryUsage of the result are readings of the process and
\* are left out
getSystemMetricsBody(W, f) ==
  IF FailsAt(f, "getSystemMetrics.zrangebyscore") THEN Reject(W, f.msg)
  ELSE
  LET last5Minutes == W.now - RecentMs
      metricKeys == zrangebyscore(W, last5Minutes, W.now)
  IN
  IF Len(metricKeys) > 0 /\ FailsAt(f, "getSystemMetrics.mget")
  THEN Reject(W, f.msg)
  ELSE
  LET recentMetrics == StoredMetrics(W, metricKeys)
      responseTimes ==
        SortAscending([i \in 1..Len(recentMetrics) |->
                         recentMetrics[i].responseTime])
      average == IF Len(responseTimes) > 0
                 THEN Quotient(SumOf(responseTimes), Len(responseTimes))
                 ELSE Quotient(0, 1)
      p95Index == PercentileIndex(Len(responseTimes), 95)
      p99Index == PercentileIndex(Len(responseTimes), 99)
      total == Len(recentMetrics)
      successful ==
        Cardinality({i \in 1..Len(recentMetrics) :
                       /\ recentMetrics[i].statusCode >= 200
                       /\ recentMetrics[i].statusCode < 400})
  IN  Return(W, [responseTime |->
                   [average |-> average,
                    p95 |-> ElementOrZero(responseTimes, p95Index),
                    p99 |-> ElementOrZero(responseTimes, p99Index)],
                 requestCount |->
                   [total |-> total, successful |-> successful,
                    failed |-> total - successful]])

getSystemMetrics(W0, f) ==
  LET W == Logged(W0, [op |-> "getSystemMetrics"])
  IN  executeOperation(W, getSystemMetricsBody(W, f),
                       getSystemMetricsFallback)

(***************************************************************************)
(* SecurityMiddleware                                                      *)
(***************************************************************************)
\* the three address ranges of isKnownMaliciousIp
isKnownMaliciousIp(ip) ==
  SubSeq(ip, 1, 3) \in { <<192, 0, 2>>, <<198, 51, 100>>, <<203, 0, 113>> }

\* a user agent is the set of the words of the patterns found in it
LegitimateBots == { "googlebot", "bingbot", "slurp", "duckduckbot",
                    "facebookexternalhit", "twitterbot", "linkedinbot" }
SuspiciousPatterns == { "bot", "crawler", "spider", "curl", "wget",
                        "httpclient", "scanner", "nikto", "sqlmap",
                        "python-requests", "go-http-client", "masscan",
                        "nmap" }
isSuspiciousUserAgent(userAgent) ==
  IF userAgent \cap LegitimateBots # {} THEN FALSE
  ELSE userAgent \cap SuspiciousPatterns # {}

\* what use() did with the request: the answer sent, or next()
Answer(W, out, caught, finish) ==
  [W |-> W, out |-> out, caught |-> caught, finish |-> finish]

\* use(req, res, next).  thrown names a call into a service that throws
\* instead of returning (the case the catch block is written for).
use(W, r, f, thrown) ==
  IF thrown = "isBlocked" THEN Answer(W, "next", TRUE, FALSE)
  ELSE
  LET b == isBlocked(W, r.ip, f) IN
  IF b.ret THEN Answer(b.W, "403", FALSE, FALSE)
  ELSE IF isKnownMaliciousIp(r.ip)
  THEN IF thrown = "blockIp" THEN Answer(b.W, "next", TRUE, FALSE)
       ELSE Answer(blockIp(b.W, r.ip, <<"Known malicious IP pattern">>,
                           Minutes(MaliciousBlockMinutes), f).W,
                   "403", FALSE, FALSE)
  ELSE IF thrown = "trackSuspiciousActivity"
          /\ (r.contentLength > MaxContentLength
              \/ isSuspiciousUserAgent(r.userAgent)
              \/ r.sqlInUrl \/ r.injectionInBody)
  THEN Answer(b.W, "next", TRUE, FALSE)
  ELSE IF r.contentLength > MaxContentLength
  THEN Answer(trackSuspiciousActivity(b.W, r.ip, "Oversized request", f).W,
              "413", FALSE, FALSE)
  ELSE
  LET W4 == IF isSuspiciousUserAgent(r.userAgent)
            THEN trackSuspiciousActivity(b.W, r.ip, "Suspicious user agent",
                                         f).W
            ELSE b.W
  IN
  IF r.sqlInUrl
  THEN Answer(trackSuspiciousActivity(W4, r.ip, "SQL injection in URL", f).W,
              "400", FALSE, FALSE)
  ELSE IF r.injectionInBody
  THEN Answer(trackSuspiciousActivity(W4, r.ip, "Injection attack in body",
                                      f).W,
              "400", FALSE, FALSE)
  ELSE Answer(W4, "next", FALSE, TRUE)

\* the handler of the response's finish event
onFinish(W, r, statusCode, f) ==
  LET W1 == IF r.authUrl /\ statusCode = 401
            THEN trackSuspiciousActivity(W, r.ip, "Failed authentication",
                                         f).W
            ELSE W
  IN  IF statusCode = 429
      THEN trackSuspiciousActivity(W1, r.ip, "Rate limit exceeded", f).W
      ELSE W1

(***************************************************************************)
(* The state machine.                                                      *)
(***************************************************************************)
Commit(W) ==
  /\ redis' = W.redis
  /\ isConnected' = W.isConnected
  /\ req' = W.req
  /\ suspicious' = W.suspicious
  /\ blocked' = W.blocked
  /\ attempts' = W.attempts
  /\ details' = W.details
  /\ metrics' = W.metrics
  /\ sortedSet' = W.sortedSet
  /\ stats' = W.stats
  /\ now' = now

\* ---- what the history keeps of a step ----
LogOps(log, op) == {i \in 1..Len(log) : log[i].op = op}
HasError(log) == LogOps(log, "error") # {}
\* the calls of trackSuspiciousActivity for ip in the log
TsaCalls(log, ip) ==
  Cardinality({i \in LogOps(log, "trackSuspiciousActivity") : log[i].ip = ip})
\* the calls of blockIp made by trackSuspiciousActivity for ip in the log
EscalationCalls(log, ip) ==
  {i \in LogOps(log, "blockIp") :
     /\ log[i].ip = ip
     /\ i > 1
     /\ log[i - 1].op = "trackSuspiciousActivity"}
\* the last call of blockIp for ip in the log, if any
BlockCalls(log, ip) == {i \in LogOps(log, "blockIp") : log[i].ip = ip}
LastIn(S) == CHOOSE i \in S : \A j \in S : j <= i

\* whether c's last blockIp call set an expiry instant that has passed
PastExpiry(h, c, t) ==
  /\ c \in DOMAIN h.lastBlock
  /\ h.lastBlock[c].dur.supplied
  /\ t > h.lastBlock[c].at + h.lastBlock[c].dur.minutes * 60000

HistAfter(h, log, t) ==
  [h EXCEPT
     !.tsaCalls = [c \in Clients |-> h.tsaCalls[c] + TsaCalls(log, c)],
     !.escalations =
        [c \in Clients |-> h.escalations[c]
                           + Cardinality(EscalationCalls(log, c))],
     !.lastBlock =
        [c \in (DOMAIN h.lastBlock)
               \cup {x \in Clients : BlockCalls(log, x) # {}} |->
           IF BlockCalls(log, c) # {}
           THEN [dur |-> log[LastIn(BlockCalls(log, c))].dur, at |-> t]
           ELSE h.lastBlock[c]],
     !.seenExpired =
        [c \in Clients |->
           /\ BlockCalls(log, c) = {}
           /\ \/ h.seenExpired[c]
              \/ /\ PastExpiry(h, c, t)
                 /\ \E i \in LogOps(log, "isBlocked") : log[i].ip = c]]

\* the failing command of a step, kept only when it was reached
Reached(f, log) == IF HasError(log) THEN f ELSE NoFail

Called(op, ip, r, f) ==
  [op |-> op, ip |-> ip, avail |-> isConnected /\ redis, ret |-> r.ret,
   threw |-> r.threw, log |-> r.W.log, f |-> Reached(f, r.W.log)]

\* ---- the clock ----
Tick(d) ==
  /\ UNCHANGED application
  /\ hist.ticks < MaxTicks
  /\ now' = now + d
  /\ req' = Live(req, now + d)
  /\ suspicious' = Live(suspicious, now + d)
  /\ attempts' = Live(attempts, now + d)
  /\ details' = Live(details, now + d)
  /\ metrics' = Live(metrics, now + d)
  /\ stats' = Live(stats, now + d)
  /\ UNCHANGED <<redis, isConnected, blocked, sortedSet, inflight>>
  /\ lastOp' = [op |-> "tick"]
  /\ hist' = [hist EXCEPT
                !.ticks = @ + 1,
                !.expired = [c \in Clients |->
                               \/ hist.expired[c]
                               \/ (c \in DOMAIN attempts
                                   /\ c \notin DOMAIN Live(attempts, now + d))]]

\* ---- RedisService events ----
OnConnect ==
  /\ UNCHANGED application
  /\ redis
  /\ ~isConnected
  /\ isConnected' = TRUE
  /\ lastOp' = [op |-> "connect"]
  /\ UNCHANGED <<now, redis, req, suspicious, blocked, attempts, details,
                 metrics, sortedSet, stats, inflight, hist>>

OnError ==
  /\ UNCHANGED application
  /\ redis
  /\ isConnected
  /\ isConnected' = FALSE
  /\ lastOp' = [op |-> "error"]
  /\ UNCHANGED <<now, redis, req, suspicious, blocked, attempts, details,
                 metrics, sortedSet, stats, inflight, hist>>

\* ---- RedisSecurityService ----
TrackRequest(c, f) ==
  /\ UNCHANGED application
  /\ hist.tracked < MaxTracked
  /\ LET r == trackRequest(World, c, f)
         w == Window(now, MinuteMs)
     IN  /\ Commit(r.W)
         /\ lastOp' = Called("trackRequest", c, r, f)
         /\ hist' = [HistAfter(hist, r.W.log, now) EXCEPT
                       !.tracked = @ + 1,
                       !.calls[c] = IF @.w = w THEN [@ EXCEPT !.n = @ + 1]
                                    ELSE [w |-> w, n |-> 1]]
  /\ UNCHANGED inflight

ShouldRateLimit(c, f) ==
  /\ UNCHANGED application
  /\ LET r == shouldRateLimit(World, c, f)
     IN  /\ Commit(r.W)
         /\ lastOp' = Called("shouldRateLimit", c, r, f)
  /\ UNCHANGED <<inflight, hist>>

AddToSuspiciousIps(c, reason, f) ==
  /\ UNCHANGED application
  /\ hist.tracked < MaxTracked
  /\ LET r == addToSuspiciousIps(World, c, reason, f)
     IN  /\ Commit(r.W)
         /\ lastOp' = Called("addToSuspiciousIps", c, r, f)
         /\ hist' = [HistAfter(hist, r.W.log, now) EXCEPT !.tracked = @ + 1]
  /\ UNCHANGED inflight

ClearSuspiciousIp(c, f) ==
  /\ UNCHANGED application
  /\ LET r == clearSuspiciousIp(World, c, f)
     IN  /\ Commit(r.W)
         /\ lastOp' = Called("clearSuspiciousIp", c, r, f)
  /\ UNCHANGED <<inflight, hist>>

\* ---- RedisIpBlockingService ----
BlockIp(c, reason, dur, f) ==
  /\ UNCHANGED application
  /\ hist.admin < MaxAdmin
  /\ LET r == blockIp(World, c, reason, dur, f)
     IN  /\ Commit(r.W)
         /\ lastOp' = Called("blockIp", c, r, f) @@ [dur |-> dur]
         /\ hist' = [HistAfter(hist, r.W.log, now) EXCEPT
                       !.admin = @ + 1,
                       !.permanent[c] = /\ isConnected /\ redis
                                         /\ ~HasError(r.W.log)
                                         /\ ~dur.supplied]
  /\ UNCHANGED inflight

UnblockIp(c, f) ==
  /\ UNCHANGED application
  /\ hist.admin < MaxAdmin
  /\ LET r == unblockIp(World, c, f)
     IN  /\ Commit(r.W)
         /\ lastOp' = Called("unblockIp", c, r, f)
         /\ hist' = [hist EXCEPT !.lastBlock = Del(@, c),
                                 !.seenExpired[c] = FALSE,
                                 !.permanent[c] = FALSE,
                                 !.admin = @ + 1]
  /\ UNCHANGED inflight

IsBlocked(c, f) ==
  /\ UNCHANGED application
  /\ LET r == isBlocked(World, c, f)
     IN  /\ Commit(r.W)
         /\ lastOp' = Called("isBlocked", c, r, f)
         /\ hist' = HistAfter(hist, r.W.log, now)
  /\ UNCHANGED inflight

GetBlockedIps(f) ==
  /\ UNCHANGED application
  /\ LET r == getBlockedIps(World, f)
     IN  /\ Commit(r.W)
         /\ lastOp' = Called("getBlockedIps", <<>>, r, f)
  /\ UNCHANGED <<inflight, hist>>

GetStats(f) ==
  /\ UNCHANGED application
  /\ LET r == getStats(World, f)
     IN  /\ Commit(r.W)
         /\ lastOp' = Called("getStats", <<>>, r, f)
  /\ UNCHANGED <<inflight, hist>>

TrackSuspiciousActivity(c, activity, f) ==
  /\ UNCHANGED application
  /\ hist.tsaCalls[c] < MaxCalls
  /\ LET r == trackSuspiciousActivity(World, c, activity, f)
     IN  /\ Commit(r.W)
         /\ lastOp' = Called("trackSuspiciousActivity", c, r, f)
         /\ hist' = HistAfter(hist, r.W.log, now)
  /\ UNCHANGED inflight

ImportMaliciousIpList(ips, reason, f) ==
  /\ UNCHANGED application
  /\ hist.admin < MaxAdmin
  /\ LET r == importMaliciousIpList(World, ips, reason, f)
     IN  /\ Commit(r.W)
         /\ lastOp' = Called("importMaliciousIpList", <<>>, r, f) @@ [ips |-> ips]
         /\ hist' = [hist EXCEPT
                       !.admin = @ + 1,
                       !.lastBlock =
                          [c \in (DOMAIN hist.lastBlock) \cup ips |->
                             IF c \in ips THEN [dur |-> NoDuration, at |-> now]
                             ELSE hist.lastBlock[c]],
                       !.seenExpired =
                          [c \in Clients |-> hist.seenExpired[c] /\ c \notin ips]]
  /\ UNCHANGED inflight

\* ---- RedisPerformanceService ----
GetSystemMetrics(f) ==
  /\ UNCHANGED application
  /\ LET r == getSystemMetrics(World, f)
     IN  /\ Commit(r.W)
         /\ lastOp' = Called("getSystemMetrics", <<>>, r, f)
  /\ UNCHANGED <<inflight, hist>>

RecordMetric(endpoint, method, responseTime, statusCode, f) ==
  /\ UNCHANGED application
  /\ Cardinality(DOMAIN metrics) < MaxMetrics
  /\ LET r == recordMetric(World, endpoint, method, responseTime,
                           statusCode, f)
     IN  /\ Commit(r.W)
         /\ lastOp' = Called("recordMetric", <<>>, r, f)
  /\ UNCHANGED <<inflight, hist>>

\* ---- SecurityMiddleware ----
\* what the finish handler keeps of a request: clientIp and url
Pending(r) == [ip |-> r.ip, authUrl |-> r.authUrl]

Use(r, f, thrown) ==
  /\ UNCHANGED application
  /\ hist.tsaCalls[r.ip] < MaxCalls
  /\ LET a == use(World, r, f, thrown)
     IN  /\ a.finish => Cardinality(inflight \cup {Pending(r)}) <= MaxInflight
         /\ Commit(a.W)
         /\ inflight' = IF a.finish THEN inflight \cup {Pending(r)}
                        ELSE inflight
         /\ lastOp' = [op |-> "use", ip |-> r.ip, r |-> r,
                       avail |-> isConnected /\ redis, out |-> a.out,
                       caught |-> a.caught, thrown |-> thrown,
                       log |-> a.W.log, f |-> Reached(f, a.W.log)]
         /\ hist' = HistAfter(hist, a.W.log, now)

Finish(r, statusCode, f) ==
  /\ UNCHANGED application
  /\ r \in inflight
  /\ hist.tsaCalls[r.ip] < MaxCalls
  /\ LET W == onFinish(World, r, statusCode, f)
     IN  /\ Commit(W)
         /\ inflight' = inflight \ {r}
         /\ lastOp' = [op |-> "finish", ip |-> r.ip, statusCode |-> statusCode,
                       avail |-> isConnected /\ redis, log |-> W.log,
                       f |-> Reached(f, W.log)]
         /\ hist' = HistAfter(hist, W.log, now)

(***************************************************************************)
(* Initial states and specifications.                                      *)
(***************************************************************************)
\* the requests use() is given
Request(ip, len, ua, sql, inj, auth) ==
  [ip |-> ip, contentLength |-> len, userAgent |-> ua, sqlInUrl |-> sql,
   injectionInBody |-> inj, authUrl |-> auth]
\* an address outside the ranges of isKnownMaliciousIp, and one inside
Plain == <<1, 2, 3, 4>>
Listed == <<203, 0, 113, 5>>
Requests ==
  { Request(Plain, 0, {}, FALSE, FALSE, TRUE),
    Request(Plain, MaxContentLength + 1, {}, FALSE, FALSE, FALSE),
    Request(Plain, MaxContentLength, {"curl"}, FALSE, TRUE, FALSE),
    Request(Plain, 0, {"googlebot", "bot"}, TRUE, FALSE, FALSE),
    Request(Listed, 0, {}, FALSE, FALSE, FALSE) }
StatusCodes == { 200, 401, 429 }
Thrown == { "isBlocked", "blockIp", "trackSuspiciousActivity" }

\* counters a running system holds for a client: m calls in the current
\* minute, h calls in the current hour
Preloads == { [m |-> 0, h |-> 0], [m |-> 498, h |-> 498],
              [m |-> 998, h |-> 998], [m |-> 10, h |-> 4998] }
Preloaded(c, p, t) ==
  IF p.m = 0 THEN Empty
  ELSE Put(Put(Empty, ReqKey(c, "minute", Window(t, MinuteMs)),
               [n |-> p.m, exp |-> t + MinuteTtlSec * 1000]),
           ReqKey(c, "hour", Window(t, HourMs)),
           [n |-> p.h, exp |-> t + HourTtlSec * 1000])

Hist0 ==
  [ticks |-> 0, tracked |-> 0, admin |-> 0,
   calls |-> [c \in Clients |-> [w |-> -1, n |-> 0]],
   lastBlock |-> Empty,
   tsaCalls |-> [c \in Clients |-> 0],
   escalations |-> [c \in Clients |-> 0],
   expired |-> [c \in Clients |-> FALSE],
   seenExpired |-> [c \in Clients |-> FALSE],
   permanent |-> [c \in Clients |-> FALSE]]

\* a store in which nothing has been written yet
InitEmpty ==
  /\ application = NoApplication
  /\ now = 2 * MinuteMs
  /\ suspicious = Empty
  /\ blocked = Empty
  /\ attempts = Empty
  /\ details = Empty
  /\ metrics = Empty
  /\ sortedSet = Empty
  /\ stats = Empty
  /\ inflight = {}
  /\ lastOp = [op |-> "init"]

\* ---- the block registry, store up ----
\* Plain has four incidents on its counter: the next one escalates.
Init ==
  /\ application = NoApplication
  /\ now = 2 * MinuteMs
  /\ redis = TRUE
  /\ isConnected = TRUE
  /\ req = Empty
  /\ suspicious = Empty
  /\ blocked = Empty
  /\ attempts = Put(Empty, Plain,
                    [n |-> AutoBlockAttempts - 1,
                     exp |-> now + ActivityTtlSec * 1000])
  /\ details = Put(Empty, Plain,
                   [lastAttempt |-> now, activity |-> "Failed authentication",
                    exp |-> now + ActivityTtlSec * 1000])
  /\ metrics = Empty
  /\ sortedSet = Empty
  /\ stats = Empty
  /\ inflight = {}
  /\ lastOp = [op |-> "init"]
  /\ hist = [Hist0 EXCEPT !.tsaCalls[Plain] = AutoBlockAttempts - 1]

Next ==
  \/ \E d \in { 1, HourMs } : Tick(d)
  \/ \E c \in Clients, reason \in Reasons, dur \in Durations :
       BlockIp(c, reason, dur, NoFail)
  \/ \E c \in Clients : UnblockIp(c, NoFail)
  \/ \E c \in Clients : IsBlocked(c, NoFail)
  \/ GetBlockedIps(NoFail)
  \/ GetStats(NoFail)
  \/ \E a \in Activities :
       Plain \in DOMAIN attempts /\ TrackSuspiciousActivity(Plain, a, NoFail)
  \/ \E ips \in (SUBSET Clients) \ {{}} :
       ImportMaliciousIpList(ips, <<"Known malicious IP">>, NoFail)
  \/ Use(Request(Listed, 0, {}, FALSE, FALSE, FALSE), NoFail, "none")

Spec == Init /\ [][Next]_vars

\* ---- the attempt counters and the middleware, store up ----
InitLedger ==
  /\ InitEmpty
  /\ redis = TRUE
  /\ isConnected = TRUE
  /\ req = Empty
  /\ hist = Hist0

NextLedger ==
  \/ \E d \in { 1, HourMs } : Tick(d)
  \/ \E a \in Activities : TrackSuspiciousActivity(Plain, a, NoFail)
  \/ IsBlocked(Plain, NoFail)
  \/ \E r \in { Request(Plain, 0, {}, FALSE, FALSE, TRUE),
                 Request(Plain, MaxContentLength, {"curl"}, FALSE, TRUE,
                         FALSE) } :
       Use(r, NoFail, "none")
  \/ \E r \in inflight, sc \in StatusCodes : Finish(r, sc, NoFail)

SpecLedger == InitLedger /\ [][NextLedger]_vars

\* ---- the request tracker, store up ----
InitTrack ==
  /\ InitEmpty
  /\ redis = TRUE
  /\ isConnected = TRUE
  /\ \E c \in Clients, p \in Preloads :
       /\ req = Preloaded(c, p, now)
       /\ hist = [Hist0 EXCEPT
                    !.calls[c] = IF p.m = 0 THEN @
                                 ELSE [w |-> Window(now, MinuteMs), n |-> p.m]]

NextTrack ==
  \/ \E d \in { 1, MinuteMs - 1, HourMs } : Tick(d)
  \/ \E c \in Clients : TrackRequest(c, NoFail)
  \/ \E c \in Clients : ShouldRateLimit(c, NoFail)

SpecTrack == InitTrack /\ [][NextTrack]_vars

\* ---- all services, with a store that goes away and commands that reject ----
FailsIn(sites) ==
  {NoFail} \cup { [at |-> s, msg |-> m] : s \in sites \cap FailSites,
                                           m \in ErrorMessages }

\* the calls that write, made so far
Budget == hist.tracked + hist.admin + hist.tsaCalls[Plain]
          + hist.tsaCalls[Listed] + Cardinality(DOMAIN metrics)

InitFail ==
  /\ InitEmpty
  /\ redis \in BOOLEAN
  /\ isConnected \in BOOLEAN
  /\ \E p \in { [m |-> 0, h |-> 0], [m |-> 500, h |-> 500] } :
       req = Preloaded(Plain, p, now)
  /\ hist = Hist0

NextFail ==
  \/ hist.ticks < 1 /\ Tick(HourMs + 1)
  \/ OnConnect
  \/ OnError
  \/ \E c \in {Plain}, f \in FailsIn({"shouldRateLimit.get"}) :
       ShouldRateLimit(c, f)
  \/ \E c \in {Plain},
        f \in FailsIn({"isBlocked.hget", "unblockIp.hdel"}) : IsBlocked(c, f)
  \/ /\ Budget < MaxOps
     /\ \/ \E c \in {Plain},
              f \in FailsIn({"trackRequest.exec", "addToSuspiciousIps.get",
                             "addToSuspiciousIps.setex"}) : TrackRequest(c, f)
        \/ \E c \in {Plain},
              f \in FailsIn({"addToSuspiciousIps.get",
                             "addToSuspiciousIps.setex"}) :
             AddToSuspiciousIps(c, RateReason(501, 501), f)
        \/ \E c \in {Plain}, reason \in Reasons, dur \in Durations,
              f \in FailsIn({"blockIp.hset", "blockIp.expire"}) :
             BlockIp(c, reason, dur, f)
        \/ \E c \in {Plain}, f \in FailsIn({"unblockIp.hdel"}) : UnblockIp(c, f)
        \/ \E c \in {Plain}, a \in Activities,
              f \in FailsIn({"trackSuspiciousActivity.incr",
                             "trackSuspiciousActivity.expire",
                             "trackSuspiciousActivity.hset",
                             "trackSuspiciousActivity.expireDetails",
                             "trackSuspiciousActivity.del",
                             "blockIp.hset", "blockIp.expire"}) :
             TrackSuspiciousActivity(c, a, f)
        \/ \E ips \in {{Plain}, Clients},
              f \in FailsIn({"importMaliciousIpList.exec"}) :
             ImportMaliciousIpList(ips, <<"Known malicious IP">>, f)
        \/ \E rt \in { 50, 1500 }, sc \in { 200, 500 },
              f \in FailsIn({"recordMetric.setex", "recordMetric.zadd",
                             "recordMetric.zremrangebyscore",
                             "updateSystemStats.exec"}) :
             RecordMetric("/graphql", "POST", rt, sc, f)

SpecFail == InitFail /\ [][NextFail]_vars

\* ---- the operations that write, with a store that goes away ----
InitDown ==
  /\ InitEmpty
  /\ redis \in BOOLEAN
  /\ isConnected \in BOOLEAN
  /\ req = Empty
  /\ hist = Hist0

NextDown ==
  \/ Tick(HourMs + 1)
  \/ OnConnect
  \/ OnError
  \/ \E f \in FailsIn({"isBlocked.hget"}) : IsBlocked(Plain, f)
  \/ /\ Budget < MaxOps
     /\ \/ AddToSuspiciousIps(Plain, RateReason(501, 501), NoFail)
        \/ \E dur \in Durations : BlockIp(Plain, <<"abuse">>, dur, NoFail)
        \/ UnblockIp(Plain, NoFail)
        \/ \E a \in Activities : TrackSuspiciousActivity(Plain, a, NoFail)
        \/ \E ips \in {{Plain}, Clients} :
             ImportMaliciousIpList(ips, <<"Known malicious IP">>, NoFail)
        \/ \E rt \in { 50, 1500 }, sc \in { 200, 500 } :
             RecordMetric("/graphql", "POST", rt, sc, NoFail)

SpecDown == InitDown /\ [][NextDown]_vars

\* ---- the middleware, with a store that goes away and commands that reject ----
InitMw ==
  /\ InitEmpty
  /\ redis \in BOOLEAN
  /\ isConnected \in BOOLEAN
  /\ req = Empty
  /\ hist = Hist0

\* a command of each service the middleware calls, rejecting
MwFails ==
  { NoFail,
    [at |-> "isBlocked.hget", msg |-> "ECONNRESET"],
    [at |-> "isBlocked.hget", msg |-> "Command timed out"],
    [at |-> "unblockIp.hdel", msg |-> "Command timed out"],
    [at |-> "blockIp.hset", msg |-> "Command timed out"],
    [at |-> "trackSuspiciousActivity.incr", msg |-> "Command timed out"] }

NextMw ==
  \/ hist.ticks < 1 /\ Tick(HourMs + 1)
  \/ OnConnect
  \/ OnError
  \/ \E dur \in { NoDuration, Minutes(60) } :
       BlockIp(Plain, <<"abuse">>, dur, NoFail)
  \/ \E r \in Requests, f \in MwFails : Budget < MaxOps /\ Use(r, f, "none")
  \/ \E r \in Requests, t \in Thrown :
       /\ Budget < MaxOps
       /\ t = "blockIp" => isKnownMaliciousIp(r.ip)
       /\ t = "trackSuspiciousActivity" => r.sqlInUrl
       /\ t = "isBlocked" => r.authUrl
       /\ Use(r, NoFail, t)
  \/ \E r \in inflight, sc \in StatusCodes,
        f \in FailsIn({"trackSuspiciousActivity.incr"}) :
       Budget < MaxOps /\ Finish(r, sc, f)

SpecMw == InitMw /\ [][NextMw]_vars

(***************************************************************************)
(* Properties.                                                             *)
(***************************************************************************)
\* what the last call read or wrote for its client
MinuteCount(c) ==
  LET k == ReqKey(c, "minute", Window(now, MinuteMs))
  IN  IF k \in DOMAIN req THEN req[k].n ELSE 0
HourCount(c) ==
  LET k == ReqKey(c, "hour", Window(now, HourMs))
  IN  IF k \in DOMAIN req THEN req[k].n ELSE 0
LastReason(c) ==
  suspicious[c].data.reasons[Len(suspicious[c].data.reasons)]

\* C1 (SpecTrack): with the store available, the N-th trackRequest call made
\* for a client inside one minute window returns requestCount = N, whatever
\* is called for other clients; the first call after the minute boundary
\* returns 1.  hist.calls counts the calls per client and window.
C1_RequestCountInWindow ==
  (lastOp.op = "trackRequest" /\ lastOp.avail)
    => /\ hist.calls[lastOp.ip].w = Window(now, MinuteMs)
       /\ lastOp.ret.requestCount = hist.calls[lastOp.ip].n

\* a call that returns 1 while the counter of the window before is still
\* stored, after calls for the same client in that window
C1_Witness ==
  /\ lastOp.op = "trackRequest"
  /\ lastOp.ret.requestCount = 1
  /\ hist.tracked >= 2
  /\ ReqKey(lastOp.ip, "minute", Window(now, MinuteMs) - 1) \in DOMAIN req

\* C2 (SpecTrack): with the store available, trackRequest returns
\* isBlocked = (minute count > 500 or hour count > 5000) and
\* isDdos = (minute count > 1000), the counts taken after the increment; when
\* either is true a SuspiciousRecord of the client exists on return and its
\* last reason holds both counts; the 501st request of a minute is blocked,
\* the 500th is not.
C2_Thresholds ==
  (lastOp.op = "trackRequest" /\ lastOp.avail)
    => LET c == lastOp.ip
           m == MinuteCount(c)
           h == HourCount(c)
       IN  /\ m = hist.calls[c].n
           /\ lastOp.ret.isBlocked = (m > 500 \/ h > 5000)
           /\ lastOp.ret.isDdos = (m > 1000)
           /\ (lastOp.ret.isBlocked \/ lastOp.ret.isDdos)
                => /\ c \in DOMAIN suspicious
                   /\ LastReason(c).minute = m
                   /\ LastReason(c).hour = h
           /\ (m = 501 => lastOp.ret.isBlocked)
           /\ (m = 500 /\ h = 500 => ~lastOp.ret.isBlocked)

C2_Witness ==
  /\ lastOp.op = "trackRequest"
  /\ lastOp.ret.requestCount = 501
  /\ lastOp.ret.isBlocked
  /\ ~lastOp.ret.isDdos
  /\ lastOp.ip \in DOMAIN suspicious
  /\ LastReason(lastOp.ip).minute = 501

\* C3 (Spec): after blockIp(id, reason) without duration has completed,
\* isBlocked(id) returns true on every later call, however much time passes,
\* until unblockIp(id) is called, and the record has no expiry.
\* hist.permanent[id] holds from such a call until unblockIp(id) or a blockIp
\* call with a duration made for id from outside the service.
C3_PermanentBlockStays ==
  \A c \in Clients :
    hist.permanent[c]
      => /\ c \in DOMAIN blocked
         /\ "expiresAt" \notin DOMAIN blocked[c]
         /\ (lastOp.op = "isBlocked" /\ lastOp.ip = c => lastOp.ret = TRUE)

\* C4 (Spec): after blockIp(id, reason, d) with a duration of d minutes,
\* isBlocked(id) returns true exactly while now <= blockedAt + d*60000; a call
\* after that instant returns false and leaves no record of id, and a
\* getBlockedIps() made after it does not list id.  hist.lastBlock[id] is the
\* last blockIp call made for id, hist.seenExpired[id] says that isBlocked(id)
\* was called after the instant.
C4_TemporaryBlockExpires ==
  /\ \A c \in DOMAIN hist.lastBlock :
       (/\ lastOp.op = "isBlocked"
        /\ lastOp.ip = c
        /\ hist.lastBlock[c].dur.supplied)
         => /\ lastOp.ret = (now <= hist.lastBlock[c].at
                                      + hist.lastBlock[c].dur.minutes * 60000)
            /\ (~lastOp.ret => c \notin DOMAIN blocked)
  /\ lastOp.op = "getBlockedIps"
       => \A c \in Clients :
            hist.seenExpired[c] => \A b \in lastOp.ret : b.ip # c

\* C5 (SpecLedger): with the store available and no expiry of the counter,
\* the calls of trackSuspiciousActivity for a client call blockIp(client,
\* reason, 60) exactly at every fifth call; when a fifth call returns, the
\* client's counter and details hash are absent.
C5_EveryFifthCallBlocks ==
  \A c \in Clients :
    ~hist.expired[c]
      => /\ hist.escalations[c] = hist.tsaCalls[c] \div 5
         /\ "log" \in DOMAIN lastOp
              => \A i \in EscalationCalls(lastOp.log, c) :
                   lastOp.log[i].dur = Minutes(60)
         /\ (/\ lastOp.op = "trackSuspiciousActivity"
             /\ lastOp.ip = c
             /\ hist.tsaCalls[c] % 5 = 0)
              => /\ c \notin DOMAIN attempts
                 /\ c \notin DOMAIN details
                 /\ Cardinality(EscalationCalls(lastOp.log, c)) = 1

C5_Witness ==
  /\ lastOp.op = "trackSuspiciousActivity"
  /\ hist.tsaCalls[Plain] = 10
  /\ hist.escalations[Plain] = 2
  /\ ~hist.expired[Plain]
  /\ Plain \notin DOMAIN attempts

\* C6 (SpecFail): when the store is unavailable or a store command issued
\* inside the operation fails or times out, trackRequest returns
\* {isBlocked: false, isDdos: false, requestCount: 0}, isBlocked returns false
\* and shouldRateLimit returns {shouldLimit: false, remainingRequests: 500,
\* resetTime: now + 60000}; none of the three throws.
C6_FallbackOnAnyFailure ==
  lastOp.op \in {"trackRequest", "isBlocked", "shouldRateLimit"}
    => /\ ~lastOp.threw
       /\ (~lastOp.avail \/ HasError(lastOp.log))
            => lastOp.ret =
                 CASE lastOp.op = "trackRequest" -> trackRequestFallback
                   [] lastOp.op = "isBlocked" -> FALSE
                   [] lastOp.op = "shouldRateLimit" ->
                        [shouldLimit |-> FALSE, remainingRequests |-> 500,
                         resetTime |-> now + 60000]

\* C7 (SpecMw): use() never fails a request because the security subsystem
\* failed: with the store unavailable, a command rejecting or a call into a
\* service throwing, next() is called unless a check matched; 403, 413 and
\* 400 are sent only on a match (a stored block that has not expired or a
\* listed address; an oversized body; SQL in the url or an injection in the
\* body).
C7_MiddlewareFailsOpen ==
  lastOp.op = "use"
    => LET r == lastOp.r
           matched == \/ isKnownMaliciousIp(r.ip)
                      \/ r.contentLength > 50 * 1024 * 1024
                      \/ r.sqlInUrl
                      \/ r.injectionInBody
       IN  /\ lastOp.out \in {"next", "403", "413", "400"}
           /\ lastOp.caught => lastOp.out = "next"
           /\ lastOp.out = "403"
                => \/ isKnownMaliciousIp(r.ip)
                   \/ /\ lastOp.avail
                      /\ r.ip \in DOMAIN blocked
                      /\ ~("expiresAt" \in DOMAIN blocked[r.ip]
                           /\ now > blocked[r.ip].expiresAt.iso)
           /\ lastOp.out = "413" => r.contentLength > 50 * 1024 * 1024
           /\ lastOp.out = "400" => r.sqlInUrl \/ r.injectionInBody
           /\ ((~lastOp.avail \/ HasError(lastOp.log) \/ lastOp.caught)
               /\ ~matched)
                => lastOp.out = "next"

\* a blocked client is let through while the store is away
C7_Witness ==
  /\ lastOp.op = "use"
  /\ ~lastOp.avail
  /\ lastOp.out = "next"
  /\ lastOp.ip \in DOMAIN blocked
  /\ "expiresAt" \notin DOMAIN blocked[lastOp.ip]

\* C8 (SpecDown): a mutating operation called while the store is unavailable
\* leaves every stored entity unchanged and returns its default (nothing, or
\* false for unblockIp) without throwing.
Mutating == { "blockIp", "unblockIp", "trackSuspiciousActivity",
              "addToSuspiciousIps", "importMaliciousIpList", "recordMetric" }
C8_UnavailableIsNoOp ==
  [][ (lastOp'.op \in Mutating /\ ~(isConnected /\ redis))
        => /\ Stored(World)' = Stored(World)
           /\ ~lastOp'.threw
           /\ lastOp'.ret = IF lastOp'.op = "unblockIp" THEN FALSE
                            ELSE "undefined" ]_vars

\* unblockIp was called for a client with a record while the store was away
C8_Witness ==
  /\ lastOp.op = "unblockIp"
  /\ ~lastOp.avail
  /\ lastOp.ret = FALSE
  /\ lastOp.ip \in DOMAIN blocked

\* C9 (Spec): every stored BlockRecord, whoever wrote it, has
\* isTemporary = (expiresAt is present).
C9_TemporaryIffExpiry ==
  \A c \in DOMAIN blocked :
    blocked[c].isTemporary = ("expiresAt" \in DOMAIN blocked[c])

\* records of the escalation and of the middleware are stored together
C9_Witness ==
  /\ Plain \in DOMAIN blocked
  /\ Listed \in DOMAIN blocked
  /\ blocked[Plain].reason[1] = "Multiple suspicious activities"
  /\ blocked[Listed].reason = <<"Known malicious IP pattern">>

\* C10 (Spec): blockIp(id, reason, d) stores a temporary record
\* with expiresAt = now + d*60000 for every d that is supplied, d = 0
\* included, and a permanent one only when the duration is omitted.
C10_SuppliedDurationIsTemporary ==
  lastOp.op = "blockIp"
    => LET b == blocked[lastOp.ip]
       IN  IF lastOp.dur.supplied
           THEN /\ b.isTemporary
                /\ "expiresAt" \in DOMAIN b
                /\ NewDate(b.expiresAt) = now + lastOp.dur.minutes * 60000
           ELSE /\ ~b.isTemporary
                /\ "expiresAt" \notin DOMAIN b

\* C11 (Spec): with the store available, unblockIp(id) returns true exactly
\* when a record of id was stored at the call; when it returns no record of
\* id is stored and isBlocked(id) is false, an unblockIp(id) repeated at once
\* returns false, and the records of the other clients are unchanged.
C11_UnblockRemovesOnlyItsRecord ==
  [][ \A c \in Clients :
        (lastOp'.op = "unblockIp" /\ lastOp'.ip = c)
          => /\ lastOp'.ret = (c \in DOMAIN blocked)
             /\ c \notin DOMAIN blocked'
             /\ (isBlocked(World, c, NoFail).ret)' = FALSE
             /\ (unblockIp(World, c, NoFail).ret)' = FALSE
             /\ (lastOp.op = "unblockIp" /\ lastOp.ip = c)
                  => lastOp'.ret = FALSE
             /\ \A d \in Clients \ {c} :
                  /\ (d \in DOMAIN blocked) = (d \in DOMAIN blocked')
                  /\ d \in DOMAIN blocked => blocked'[d] = blocked[d] ]_vars

\* unblockIp returned true for one client while the other keeps its record
C11_Witness ==
  /\ lastOp.op = "unblockIp"
  /\ lastOp.ret = TRUE
  /\ lastOp.ip = Plain
  /\ Listed \in DOMAIN blocked

(***************************************************************************)
(* The two suspicion mechanisms, store up.                                 *)
(***************************************************************************)
\* the SuspiciousRecord n calls of addToSuspiciousIps at time t leave
RECURSIVE RecordAfter(_, _, _)
RecordAfter(ip, n, t) ==
  IF n = 1
  THEN [ip |-> ip, reasons |-> <<RateReason(501, 501)>>, firstSeen |-> t,
        lastSeen |-> t, count |-> 1, severity |-> "medium"]
  ELSE LET parsed == RecordAfter(ip, n - 1, t)
       IN  [parsed EXCEPT !.reasons = Append(@, RateReason(500 + n, 500 + n)),
                          !.count = parsed.count + 1,
                          !.severity = IF parsed.count > 5 THEN "high"
                                       ELSE "medium"]

\* Plain has three incidents on its attempt counter and, in some initial
\* states, a SuspiciousRecord of four events.
InitSuspicion ==
  /\ application = NoApplication
  /\ now = 2 * MinuteMs
  /\ redis = TRUE
  /\ isConnected = TRUE
  /\ req = Preloaded(Plain, [m |-> 500, h |-> 500], now)
  /\ suspicious \in
       { Empty,
         Put(Empty, Plain, [data |-> RecordAfter(Plain, 4, now),
                            exp |-> now + SuspiciousTtlSec * 1000]) }
  /\ blocked = Empty
  /\ attempts = Put(Empty, Plain,
                    [n |-> AutoBlockAttempts - 2,
                     exp |-> now + ActivityTtlSec * 1000])
  /\ details = Put(Empty, Plain,
                   [lastAttempt |-> now, activity |-> "Failed authentication",
                    exp |-> now + ActivityTtlSec * 1000])
  /\ metrics = Empty
  /\ sortedSet = Empty
  /\ stats = Empty
  /\ inflight = {}
  /\ lastOp = [op |-> "init"]
  /\ hist = [Hist0 EXCEPT !.tsaCalls[Plain] = AutoBlockAttempts - 2,
                          !.calls[Plain] = [w |-> Window(now, MinuteMs),
                                            n |-> 500]]

NextSuspicion ==
  \/ \E d \in { 1, HourMs } : Tick(d)
  \/ \E c \in Clients : AddToSuspiciousIps(c, RateReason(501, 501), NoFail)
  \/ TrackRequest(Plain, NoFail)
  \/ ClearSuspiciousIp(Plain, NoFail)
  \/ \E a \in Activities :
       Plain \in DOMAIN attempts /\ TrackSuspiciousActivity(Plain, a, NoFail)

SpecSuspicion == InitSuspicion /\ [][NextSuspicion]_vars

\* C12 (SpecSuspicion): after any sequence of addToSuspiciousIps calls the
\* stored SuspiciousRecord of every client has severity = high exactly when
\* its stored count is greater than 5, and medium otherwise.
C12_SeverityFollowsCount ==
  \A c \in DOMAIN suspicious :
    /\ suspicious[c].data.severity \in {"high", "medium"}
    /\ (suspicious[c].data.severity = "high") = (suspicious[c].data.count > 5)

C16_MechanismsIndependent ==
  [][ /\ lastOp'.op \in {"addToSuspiciousIps", "trackRequest"}
        => /\ blocked' = blocked
           /\ attempts' = attempts
           /\ details' = details
      /\ lastOp'.op = "trackSuspiciousActivity"
        => suspicious' = suspicious ]_vars

\* the seventh event of a client is recorded with severity high, the client
\* is not blocked and its attempt counter is where it was
C16_Witness ==
  /\ lastOp.op = "addToSuspiciousIps"
  /\ lastOp.ip = Plain
  /\ suspicious[Plain].data.count = 7
  /\ suspicious[Plain].data.severity = "high"
  /\ Plain \notin DOMAIN blocked
  /\ Plain \in DOMAIN attempts
  /\ attempts[Plain].n = AutoBlockAttempts - 1

C13_CounterLivesOneHour ==
  [][ \A c \in Clients :
        /\ c \in DOMAIN attempts' =>
             /\ attempts'[c].exp # NoTtl
             /\ attempts'[c].exp <= now' + ActivityTtlSec * 1000
        /\ (/\ c \in DOMAIN attempts
            /\ c \in DOMAIN attempts'
            /\ attempts'[c].n > attempts[c].n)
             => attempts'[c].exp = attempts[c].exp ]_vars

\* C15 (SpecTrack): with the store available, shouldRateLimit changes no
\* stored state and returns shouldLimit = (c >= 500), remainingRequests =
\* max(0, 500 - c) and resetTime = the start of the next minute window, where
\* c is the client's request count of the current minute (0 when absent).
C15_ShouldRateLimitReadsOnly ==
  [][ lastOp'.op = "shouldRateLimit" =>
        LET c == MinuteCount(lastOp'.ip)
        IN  /\ Stored(World)' = Stored(World)
            /\ now' = now
            /\ lastOp'.ret.shouldLimit = (c >= 500)
            /\ lastOp'.ret.remainingRequests = (IF c >= 500 THEN 0 ELSE 500 - c)
            /\ lastOp'.ret.resetTime > now
            /\ lastOp'.ret.resetTime <= now + MinuteMs
            /\ lastOp'.ret.resetTime % MinuteMs = 0 ]_vars

\* shouldRateLimit answered "limit" for a client that has reached 500
\* requests in this minute, after an answer could also have been "no limit"
C15_Witness ==
  /\ lastOp.op = "shouldRateLimit"
  /\ lastOp.ret.shouldLimit
  /\ lastOp.ret.remainingRequests = 0
  /\ MinuteCount(lastOp.ip) = 500
  /\ hist.tracked > 0

(***************************************************************************)
(* The metrics of the last minutes: a store that holds the samples of      *)
(* earlier recordMetric calls, further calls, and getSystemMetrics.        *)
(***************************************************************************)
\* the response time and the status code of the i-th sample of n recorded
\* one millisecond before the start
SampleTime(n, i) == IF i % 2 = 0 THEN (n - i) * 10 ELSE ((i * 7) % 11) * 10
SampleStatus(i) == <<200, 399, 400, 500, 199, 302>>[(i % 6) + 1]
SampleKeys(n, t) == { [t |-> t, r |-> i] : i \in 0..(n - 1) }

InitMetrics ==
  /\ application = NoApplication
  /\ now = 2 * MinuteMs
  /\ redis = TRUE
  /\ isConnected = TRUE
  /\ req = Empty
  /\ suspicious = Empty
  /\ blocked = Empty
  /\ attempts = Empty
  /\ details = Empty
  /\ inflight = {}
  /\ lastOp = [op |-> "init"]
  /\ hist = Hist0
  /\ \E n \in 0..MaxSamples :
       LET keys == SampleKeys(n, now - 1)
           ok == {k \in keys : SampleStatus(k.r) \in 200..399}
       IN  /\ metrics =
                [k \in keys |->
                   [m |-> [endpoint |-> "/graphql", method |-> "POST",
                           responseTime |-> SampleTime(n, k.r),
                           timestamp |-> DateToJSON(now - 1),
                           statusCode |-> SampleStatus(k.r)],
                    exp |-> now - 1 + MetricTtlSec * 1000]]
           /\ sortedSet = [k \in keys |-> now - 1]
           /\ stats = IF n = 0 THEN Empty
                      ELSE Put(Empty, "current",
                               [total_requests |-> n,
                                successful_requests |-> Cardinality(ok),
                                failed_requests |-> n - Cardinality(ok),
                                exp |-> now - 1 + 3600 * 1000])

RecordSample(responseTime, statusCode) ==
  /\ UNCHANGED application
  /\ Cardinality({k \in DOMAIN metrics : k.t >= 2 * MinuteMs}) < MaxMetrics
  /\ LET r == recordMetric(World, "/graphql", "POST", responseTime,
                           statusCode, NoFail)
     IN  /\ Commit(r.W)
         /\ lastOp' = Called("recordMetric", <<>>, r, NoFail)
  /\ UNCHANGED <<inflight, hist>>

NextMetrics ==
  \/ \E d \in { 1, RecentMs - 1, RecentMs } : Tick(d)
  \/ \E m \in { <<5, 200>>, <<2000, 500>> } :
       RecordSample(m[1], m[2])
  \/ GetSystemMetrics(NoFail)

SpecMetrics == InitMetrics /\ [][NextMetrics]_vars

\* the stored metrics recorded within the last five minutes
RecordedRecently == {k \in DOMAIN metrics : k.t >= now - RecentMs /\ k.t <= now}
RECURSIVE TotalTime(_)
TotalTime(S) ==
  IF S = {} THEN 0
  ELSE LET k == CHOOSE x \in S : TRUE
       IN  metrics[k].m.responseTime + TotalTime(S \ {k})
\* v stands at index i (from 0) of the response times of S sorted ascending
AtSortedIndex(S, i, v) ==
  /\ \E k \in S : metrics[k].m.responseTime = v
  /\ Cardinality({k \in S : metrics[k].m.responseTime < v}) <= i
  /\ Cardinality({k \in S : metrics[k].m.responseTime <= v}) > i

\* C17 (SpecMetrics): with the store available, getSystemMetrics over the n
\* metrics recorded within the last 5 minutes returns p95 = s[floor(0.95 n)]
\* and p99 = s[floor(0.99 n)] of their response times sorted ascending,
\* average = their arithmetic mean, total = n and successful + failed =
\* total with successful counting the status codes in [200, 400); with no
\* metric in the window all these values are 0, and older metrics are never
\* counted.
C17_MetricsOfLastFiveMinutes ==
  lastOp.op = "getSystemMetrics" =>
    LET S == RecordedRecently
        n == Cardinality(S)
        rt == lastOp.ret.responseTime
        rc == lastOp.ret.requestCount
    IN  /\ rc.total = n
        /\ rc.successful =
             Cardinality({k \in S : /\ metrics[k].m.statusCode >= 200
                                    /\ metrics[k].m.statusCode < 400})
        /\ rc.successful + rc.failed = rc.total
        /\ rt.average.den > 0
        /\ n > 0 => /\ rt.average.num * n = TotalTime(S) * rt.average.den
                    /\ AtSortedIndex(S, (95 * n) \div 100, rt.p95)
                    /\ AtSortedIndex(S, (99 * n) \div 100, rt.p99)
        /\ n = 0 => rt.average.num = 0 /\ rt.p95 = 0 /\ rt.p99 = 0

\* getSystemMetrics answered over a window of more than twenty metrics of
\* which some failed, and the two percentiles differ
C17_Witness ==
  /\ lastOp.op = "getSystemMetrics"
  /\ lastOp.ret.requestCount.total > 20
  /\ lastOp.ret.responseTime.p95 < lastOp.ret.responseTime.p99
  /\ lastOp.ret.requestCount.failed > 0

(***************************************************************************)
(* RateLimitingService: the limits of an endpoint and their adjustment to  *)
(* the server load.                                                        *)
(***************************************************************************)
limits ==
  [e \in { "/auth/login", "/auth/register", "/auth/forgot-password",
           "/graphql", "/upload", "/api/jobs", "/api/users", "/api/admin",
           "/health" } |->
     CASE e = "/auth/login" -> [ttl |-> 60000, limit |-> 30]
       [] e = "/auth/register" -> [ttl |-> 300000, limit |-> 15]
       [] e = "/auth/forgot-password" -> [ttl |-> 3600000, limit |-> 8]
       [] e = "/graphql" -> [ttl |-> 60000, limit |-> 1000]
       [] e = "/upload" -> [ttl |-> 60000, limit |-> 100]
       [] e = "/api/jobs" -> [ttl |-> 60000, limit |-> 2000]
       [] e = "/api/users" -> [ttl |-> 60000, limit |-> 1000]
       [] e = "/api/admin" -> [ttl |-> 60000, limit |-> 200]
       [] e = "/health" -> [ttl |-> 60000, limit |-> 2000]]

defaultLimits == [ttl |-> 60000, limit |-> 800]

\* limits[endpoint] || defaultLimits; an endpoint is a request path, and no
\* inherited property of the table object has the name of a path
getEndpointLimits(endpoint) ==
  IF endpoint \in DOMAIN limits THEN limits[endpoint] ELSE defaultLimits

\* Math.floor(limit * 0.7) and Math.floor(limit * 1.2): the products of the
\* limits above (8, 15, 30, 100, 200, 800, 1000, 2000) are computed in
\* doubles to 5.6, 10.5, 21, 70, 140, 560, 700, 1400 and to 9.6, 18, 36,
\* 120, 240, 960, 1200, 2400, whose floors are those of the exact products
FloorOfTenths(limit, tenths) == (limit * tenths) \div 10

\* a variant that lowers the limit from a load of 80 on
getDynamicLimitsFrom80(endpoint, serverLoad) ==
  LET baseLimits == getEndpointLimits(endpoint)
  IN  IF serverLoad >= 80
      THEN [ttl |-> baseLimits.ttl,
            limit |-> FloorOfTenths(baseLimits.limit, 7)]
      ELSE IF serverLoad < 30
      THEN [ttl |-> baseLimits.ttl,
            limit |-> FloorOfTenths(baseLimits.limit, 12)]
      ELSE baseLimits

getDynamicLimits(endpoint, serverLoad) ==
  LET baseLimits == getEndpointLimits(endpoint)
  IN  IF serverLoad > 80
      THEN [ttl |-> baseLimits.ttl,
            limit |-> FloorOfTenths(baseLimits.limit, 7)]
      ELSE IF serverLoad < 30
      THEN [ttl |-> baseLimits.ttl,
            limit |-> FloorOfTenths(baseLimits.limit, 12)]
      ELSE baseLimits

\* the endpoints asked about: those of the table, and paths that match none
\* of them exactly
Endpoints ==
  DOMAIN limits \cup { "", "/unknown/endpoint", "/auth/login/", "/AUTH/LOGIN",
                       "/graphql?query=1", "/api/jobs/1", "/api" }

GetDynamicLimits(endpoint, serverLoad) ==
  /\ UNCHANGED application
  /\ lastOp' = [op |-> "getDynamicLimits", endpoint |-> endpoint,
                serverLoad |-> serverLoad,
                ret |-> getDynamicLimits(endpoint, serverLoad)]
  /\ UNCHANGED <<now, redis, isConnected, req, suspicious, blocked, attempts,
                 details, metrics, sortedSet, stats, inflight, hist>>

InitLimits ==
  /\ InitEmpty
  /\ redis = TRUE
  /\ isConnected = TRUE
  /\ req = Empty
  /\ hist = Hist0

NextLimits ==
  \E e \in Endpoints, load \in 0..MaxLoad : GetDynamicLimits(e, load)

SpecLimits == InitLimits /\ [][NextLimits]_vars

\* C18 (SpecLimits): getDynamicLimits(endpoint, load) returns the ttl of
\* getEndpointLimits(endpoint) unchanged and limit = floor(0.7 L) when
\* load > 80, floor(1.2 L) when load < 30 and L otherwise, where L is the
\* limit of the table entry of an exactly matching endpoint and 800, with
\* ttl 60000, for every other endpoint.
C18_LimitsFollowLoad ==
  lastOp.op = "getDynamicLimits" =>
    LET e == lastOp.endpoint
        load == lastOp.serverLoad
        base == IF e \in DOMAIN limits THEN limits[e]
                ELSE [ttl |-> 60000, limit |-> 800]
        L == base.limit
    IN  /\ lastOp.ret.ttl = base.ttl
        /\ load > 80 => /\ 10 * lastOp.ret.limit <= 7 * L
                        /\ 10 * (lastOp.ret.limit + 1) > 7 * L
        /\ load < 30 => /\ 10 * lastOp.ret.limit <= 12 * L
                        /\ 10 * (lastOp.ret.limit + 1) > 12 * L
        /\ (load >= 30 /\ load <= 80) => lastOp.ret.limit = L

\* a limit whose scaled value is not whole was lowered at a load above 80
C18_Witness ==
  /\ lastOp.op = "getDynamicLimits"
  /\ lastOp.endpoint = "/auth/register"
  /\ lastOp.serverLoad = 81
  /\ lastOp.ret = [ttl |-> 300000, limit |-> 10]

(***************************************************************************)
(* Concurrent trackSuspiciousActivity calls for one client.  Every store   *)
(* command of a call is a step of its own, and the calls in flight are     *)
(* kept in inflight with the value their increment returned.  The store    *)
(* is available, no command rejects and no time passes.  blockIp is one    *)
(* step: its commands touch the client's BlockRecord alone, which no other *)
(* step of these calls reads.                                              *)
(***************************************************************************)
Moved(call, pc) == (inflight \ {call}) \cup {[call EXCEPT !.pc = pc]}

StepOf(W, name) ==
  /\ UNCHANGED application
  /\ Commit(W)
  /\ lastOp' = [op |-> name]
  /\ UNCHANGED hist

\* const attempts = await redis.incr(activityKey)
CallIncr(ip) ==
  /\ Cardinality(inflight) < MaxConcurrent
  /\ LET W1 == [World EXCEPT !.attempts = Incr(attempts, ip)]
         n  == W1.attempts[ip].n
     IN  /\ inflight' = inflight \cup
                          {[ord |-> Cardinality(inflight) + 1, attempts |-> n,
                            fresh |-> ip \notin DOMAIN attempts,
                            pc |-> IF n = 1 THEN "expire" ELSE "hset"]}
         /\ StepOf(W1, "trackSuspiciousActivity.incr")

CallExpire(ip, call) ==
  /\ call.pc = "expire"
  /\ inflight' = Moved(call, "hset")
  /\ StepOf([World EXCEPT !.attempts =
               Expire(attempts, ip, ActivityTtlSec, now)],
            "trackSuspiciousActivity.expire")

CallHset(ip, activity, call) ==
  /\ call.pc = "hset"
  /\ inflight' = Moved(call, "expireDetails")
  /\ LET old == IF ip \in DOMAIN details THEN details[ip].exp ELSE NoTtl
     IN  StepOf([World EXCEPT !.details =
                   Put(details, ip, [lastAttempt |-> now,
                                     activity |-> activity, exp |-> old])],
                "trackSuspiciousActivity.hset")

CallExpireDetails(ip, call) ==
  /\ call.pc = "expireDetails"
  /\ inflight' = Moved(call, IF ShouldAutoBlock(call.attempts)
                            THEN "blockIp" ELSE "done")
  /\ StepOf([World EXCEPT !.details =
               Expire(details, ip, ActivityTtlSec, now)],
            "trackSuspiciousActivity.expireDetails")

CallBlockIp(ip, activity, call) ==
  /\ call.pc = "blockIp"
  /\ inflight' = Moved(call, "del")
  /\ StepOf([blockIp(World, ip, EscalationReason(activity),
                     Minutes(AutoBlockMinutes), NoFail).W
               EXCEPT !.log = <<>>],
            "trackSuspiciousActivity.blockIp")

CallDel(ip, call) ==
  /\ call.pc = "del"
  /\ inflight' = Moved(call, "done")
  /\ StepOf(AfterEscalation(World, ip), "trackSuspiciousActivity.del")

InitConcurrent ==
  /\ InitEmpty
  /\ redis = TRUE
  /\ isConnected = TRUE
  /\ req = Empty
  /\ hist = Hist0

NextConcurrent ==
  \/ CallIncr(Plain)
  \/ \E call \in inflight : CallExpire(Plain, call)
  \/ \E call \in inflight, a \in Activities : CallHset(Plain, a, call)
  \/ \E call \in inflight : CallExpireDetails(Plain, call)
  \/ \E call \in inflight, a \in Activities : CallBlockIp(Plain, a, call)
  \/ \E call \in inflight : CallDel(Plain, call)

SpecConcurrent == InitConcurrent /\ [][NextConcurrent]_vars

\* all calls have returned, and they are at least five
AllReturned ==
  /\ Cardinality(inflight) >= AutoBlockAttempts
  /\ \A call \in inflight : call.pc = "done"

\* C19 (SpecConcurrent): in every interleaving of five or more concurrent
\* trackSuspiciousActivity calls for one client the calls observe pairwise
\* distinct attempt values, incident N observes the count left by incident
\* N-1, at least one call observes a value >= 5, and a BlockRecord of the
\* client exists when all calls have returned.
C19_IncidentsObserveDistinctCounts ==
  /\ \A a, b \in inflight : a.ord # b.ord => a.attempts # b.attempts
  /\ \A a, b \in inflight : b.ord = a.ord + 1 => b.attempts = a.attempts + 1
  /\ AllReturned => /\ \E call \in inflight : call.attempts >= 5
                    /\ Plain \in DOMAIN blocked

\* C19 as it holds (SpecConcurrent): incident N observes the count left by
\* incident N-1 unless the counter was deleted since, which only happens
\* after a call observed a value >= 5, and then it observes 1 again; at
\* least one call observes a value >= 5, and a BlockRecord of the client
\* exists when all calls have returned.
C19_IncidentsObserveCountsUntilReset ==
  /\ \A b \in inflight :
       IF b.fresh
       THEN /\ b.attempts = 1
            /\ b.ord > 1 => \E a \in inflight : /\ a.ord < b.ord
                                                /\ a.attempts >= 5
                                                /\ a.pc = "done"
       ELSE \E a \in inflight : /\ a.ord = b.ord - 1
                                /\ b.attempts = a.attempts + 1
  /\ AllReturned => /\ \E call \in inflight : call.attempts >= 5
                    /\ Plain \in DOMAIN blocked

\* six calls have returned, the sixth after the escalation of the fifth
\* had deleted the counter
C19_Witness ==
  /\ AllReturned
  /\ Cardinality(inflight) > AutoBlockAttempts
  /\ \E a, b \in inflight : /\ a.ord = AutoBlockAttempts
                            /\ a.attempts = AutoBlockAttempts
                            /\ b.ord = a.ord + 1
                            /\ b.fresh
  /\ Plain \in DOMAIN blocked

\* the clients whose BlockRecord is stored and has not expired
LiveBlocks == {c \in DOMAIN blocked : ~HasExpired(blocked[c], now)}

\* C20 (Spec): a temporary BlockRecord whose expiresAt has passed is absent
\* for every read of the registry: isBlocked answers false for it,
\* getBlockedIps does not list it, and getStats counts it neither in
\* totalBlocked nor in temporaryBlocks, whether or not isBlocked was called
\* for the client since the expiry.
C20_ExpiredBlockIsAbsent ==
  [][ /\ \A c \in (DOMAIN blocked) \ LiveBlocks :
           ~isBlocked(World, c, NoFail).ret
      /\ lastOp'.op = "getBlockedIps" =>
           lastOp'.ret = { blocked[c] : c \in LiveBlocks }
      /\ lastOp'.op = "getStats" =>
           /\ lastOp'.ret.totalBlocked = Cardinality(LiveBlocks)
           /\ lastOp'.ret.temporaryBlocks =
                Cardinality({c \in LiveBlocks : blocked[c].isTemporary}) ]_vars

\* C21 (SpecMw): every request handled by SecurityMiddleware.use calls
\* trackRequest for its client, so that a request the middleware lets
\* through with the store available has incremented the client's minute and
\* hour counters by one.
C21_UseTracksRequest ==
  [][ \A c \in Clients :
        (lastOp'.op = "use" /\ lastOp'.ip = c) =>
          /\ \E i \in LogOps(lastOp'.log, "trackRequest") :
               lastOp'.log[i].ip = c
          /\ (lastOp'.out = "next" /\ lastOp'.avail /\ ~lastOp'.caught) =>
               /\ MinuteCount(c)' = MinuteCount(c) + 1
               /\ HourCount(c)' = HourCount(c) + 1 ]_vars

(***************************************************************************)
(* The middleware in front of a client whose attempt counter is about to   *)
(* expire: the store is available, no command rejects, and nobody calls    *)
(* blockIp or unblockIp from outside.  The client's first incident was 59  *)
(* minutes before the start.                                               *)
(***************************************************************************)
InitGate ==
  /\ application = NoApplication
  /\ now = HourMs
  /\ redis = TRUE
  /\ isConnected = TRUE
  /\ req = Empty
  /\ suspicious = Empty
  /\ blocked = Empty
  /\ attempts = Put(Empty, Plain,
                    [n |-> 1, exp |-> MinuteMs + ActivityTtlSec * 1000])
  /\ details = Put(Empty, Plain,
                   [lastAttempt |-> MinuteMs,
                    activity |-> "Failed authentication",
                    exp |-> MinuteMs + ActivityTtlSec * 1000])
  /\ metrics = Empty
  /\ sortedSet = Empty
  /\ stats = Empty
  /\ inflight = {}
  /\ lastOp = [op |-> "init"]
  /\ hist = Hist0

NextGate ==
  \/ \E d \in { MinuteMs, HourMs } : Tick(d)
  \/ \E a \in Activities : TrackSuspiciousActivity(Plain, a, NoFail)
  \/ \E r \in { Request(Plain, 0, {}, FALSE, FALSE, TRUE),
                 Request(Plain, 0, {"curl"}, FALSE, FALSE, FALSE) } :
       Use(r, NoFail, "none")
  \/ \E r \in inflight, sc \in StatusCodes : Finish(r, sc, NoFail)

SpecGate == InitGate /\ [][NextGate]_vars

\* C22 (SpecGate): with the store available, once trackSuspiciousActivity
\* has been called five times for one client within an hour, every request
\* of that client that enters use during the following 60 minutes is
\* answered with 403, does not reach next() and records no further
\* incident.  All calls counted here were made less than an hour ago.
C22_FiveIncidentsCloseTheGate ==
  [][ (/\ lastOp'.op = "use"
       /\ lastOp'.ip = Plain
       /\ hist.tsaCalls[Plain] >= 5
       /\ now < 2 * HourMs)
        => /\ lastOp'.out = "403"
           /\ TsaCalls(lastOp'.log, Plain) = 0 ]_vars

\* C22 as it holds (SpecGate): once a trackSuspiciousActivity call for a
\* client has escalated, every request of that client that enters use
\* during the 60 minutes after the escalation is answered with 403, does
\* not reach next() and records no further incident.
C22_EscalationClosesTheGate ==
  [][ (/\ lastOp'.op = "use"
       /\ lastOp'.ip = Plain
       /\ hist.escalations[Plain] > 0
       /\ now <= hist.lastBlock[Plain].at + AutoBlockMinutes * MinuteMs)
        => /\ lastOp'.out = "403"
           /\ TsaCalls(lastOp'.log, Plain) = 0
           /\ inflight' = inflight ]_vars

\* a request was answered with 403 exactly 60 minutes after the escalation
C22_Witness ==
  /\ lastOp.op = "use"
  /\ lastOp.ip = Plain
  /\ lastOp.out = "403"
  /\ hist.escalations[Plain] > 0
  /\ now = hist.lastBlock[Plain].at + AutoBlockMinutes * MinuteMs

\* C23 (Spec): a permanent BlockRecord is never replaced by a temporary one
\* through automatic escalation: after blockIp(id, reason) without duration
\* or importMaliciousIpList containing id, and until unblockIp(id) or another
\* blockIp for id from outside, every step that calls
\* trackSuspiciousActivity(id, ...) leaves the record permanent and
\* isBlocked(id) true.
C23_EscalationKeepsPermanentBlock ==
  [][ \A c \in Clients :
        (/\ c \in DOMAIN hist.lastBlock
         /\ hist.lastBlock[c].dur = NoDuration
         /\ c \in DOMAIN blocked
         /\ lastOp'.op \in {"trackSuspiciousActivity", "use", "finish"})
          => /\ c \in DOMAIN blocked'
             /\ ~blocked'[c].isTemporary
             /\ (isBlocked(World, c, NoFail).ret)' ]_vars

(***************************************************************************)
(* isBlocked beside a concurrent blockIp.  The hget of isBlocked is one    *)
(* step; the handling of its reply, with the comparison of expiresAt and   *)
(* the hdel of unblockIp, is a later one.  The call in flight is kept in   *)
(* inflight with the reply of its hget.                                    *)
(***************************************************************************)
\* const blockedData = await redis.hget(BLOCKED_IPS_KEY, ip)
IsBlockedHget(ip) ==
  /\ UNCHANGED application
  /\ Cardinality(inflight) < MaxInflight
  /\ inflight' = inflight \cup
                   {[ip |-> ip, found |-> ip \in DOMAIN blocked,
                     blockedData |-> IF ip \in DOMAIN blocked
                                     THEN blocked[ip] ELSE "null"]}
  /\ lastOp' = [op |-> "isBlocked.hget", ip |-> ip]
  /\ UNCHANGED <<now, redis, isConnected, req, suspicious, blocked, attempts,
                 details, metrics, sortedSet, stats, hist>>

\* the rest of isBlocked, on the reply
IsBlockedReturn(call) ==
  /\ UNCHANGED application
  /\ call \in inflight
  /\ inflight' = inflight \ {call}
  /\ LET expired == call.found /\ HasExpired(call.blockedData, now)
         W == IF expired THEN unblockIp(World, call.ip, NoFail).W ELSE World
     IN  /\ Commit(W)
         /\ lastOp' = [op |-> "isBlocked.return", ip |-> call.ip,
                       ret |-> call.found /\ ~expired]
  /\ UNCHANGED hist

NextRace ==
  \/ \E d \in { 1, HourMs } : Tick(d)
  \/ \E dur \in { NoDuration, Minutes(60) } :
       BlockIp(Plain, <<"abuse">>, dur, NoFail)
  \/ IsBlockedHget(Plain)
  \/ \E call \in inflight : IsBlockedReturn(call)

SpecRace == InitLedger /\ [][NextRace]_vars

\* C24 (SpecRace): the lazy expiry of isBlocked removes only expired records:
\* in every interleaving of isBlocked(id) with a concurrent blockIp(id, ...),
\* a BlockRecord that is permanent or whose expiresAt is still in the future
\* when isBlocked deletes is not deleted.
C24_LazyExpiryRemovesOnlyExpired ==
  [][ \A c \in Clients :
        (/\ lastOp'.op = "isBlocked.return"
         /\ lastOp'.ip = c
         /\ c \in DOMAIN blocked
         /\ ~HasExpired(blocked[c], now))
          => c \in DOMAIN blocked' ]_vars

(***************************************************************************)
(* The escalation with commands that reject: the client's counter stands   *)
(* at four, and a command of trackSuspiciousActivity or of the blockIp it  *)
(* calls may fail.                                                         *)
(***************************************************************************)
NextEscalate ==
  \/ \E d \in { 1, HourMs } : Tick(d)
  \/ OnConnect
  \/ IsBlocked(Plain, NoFail)
  \/ \E a \in Activities,
        f \in FailsIn({"trackSuspiciousActivity.del", "blockIp.hset",
                       "blockIp.expire"}) :
       TrackSuspiciousActivity(Plain, a, f)

SpecEscalate == Init /\ [][NextEscalate]_vars

\* C25 (SpecEscalate): also when a store command fails inside the nested
\* blockIp call, trackSuspiciousActivity deletes a client's attempt counter
\* on escalation only after a BlockRecord for that client has been written:
\* after a call that brought the counter to 5 the client is blocked or
\* still has its counter.
C25_CounterDeletedOnlyAfterBlock ==
  [][ \A c \in Clients :
        (/\ lastOp'.op = "trackSuspiciousActivity"
         /\ lastOp'.ip = c
         /\ lastOp'.avail
         /\ c \in DOMAIN attempts
         /\ attempts[c].n + 1 >= AutoBlockAttempts)
          => c \in DOMAIN blocked' \/ c \in DOMAIN attempts' ]_vars

(***************************************************************************)
(* Concurrent addToSuspiciousIps calls for one client.  The get and the    *)
(* setex of a call are steps of their own.  The clock is read when the get *)
(* is issued, and the store executes the commands in the order in which    *)
(* they are issued.  inflight keeps every call with the record it is about *)
(* to write; the n-th call gives the reason of a rate of 500 + n.          *)
(***************************************************************************)
\* const now = Date.now(); const existing = await redis.get(key)
AppendGet(ip) ==
  /\ UNCHANGED application
  /\ Cardinality(inflight) < MaxAppends
  /\ LET ord == Cardinality(inflight) + 1
         reason == RateReason(500 + ord, 500 + ord)
     IN  inflight' = inflight \cup
           {[ord |-> ord, reason |-> reason, now |-> now,
             data |-> SuspiciousData(World, ip, reason),
             alone |-> \A call \in inflight : call.pc = "done",
             writtenAt |-> 0, pc |-> "setex"]}
  /\ lastOp' = [op |-> "addToSuspiciousIps.get", ip |-> ip]
  /\ UNCHANGED <<now, redis, isConnected, req, suspicious, blocked, attempts,
                 details, metrics, sortedSet, stats, hist>>

\* await redis.setex(key, 24 * 60 * 60, JSON.stringify(suspiciousData))
AppendSetex(ip, call) ==
  /\ UNCHANGED application
  /\ call.pc = "setex"
  /\ inflight' = (inflight \ {call})
                   \cup {[call EXCEPT !.pc = "done", !.writtenAt = now]}
  /\ Commit([World EXCEPT !.suspicious =
               Put(suspicious, ip,
                   [data |-> call.data,
                    exp |-> now + SuspiciousTtlSec * 1000])])
  /\ lastOp' = [op |-> "addToSuspiciousIps.setex", ip |-> ip]
  /\ UNCHANGED hist

NextAppend ==
  \/ \E d \in { 1, DayMs } : Tick(d)
  \/ AppendGet(Plain)
  \/ \E call \in inflight : AppendSetex(Plain, call)

SpecAppend == InitLedger /\ [][NextAppend]_vars

\* the calls were made one after the other, each before the record of the
\* one before it expired
SequentialWithinTtl ==
  /\ \A call \in inflight : call.alone /\ call.pc = "done"
  /\ \A a, b \in inflight :
       b.ord = a.ord + 1 => b.now < a.writtenAt + SuspiciousTtlSec * 1000

\* C26 (SpecAppend): in every interleaving of addToSuspiciousIps calls for
\* one client the stored SuspiciousRecord has length(reasons) = count, 1 <=
\* count <= number of calls started and firstSeen <= lastSeen; when the
\* calls are sequential and within the 24-hour TTL, count is the number of
\* calls, reasons lists the reasons in call order and firstSeen is the time
\* of the first call.
C26_RecordOfInterleavedCalls ==
  Plain \in DOMAIN suspicious =>
    LET d == suspicious[Plain].data
    IN  /\ Len(d.reasons) = d.count
        /\ 1 <= d.count
        /\ d.count <= Cardinality(inflight)
        /\ d.firstSeen <= d.lastSeen
        /\ SequentialWithinTtl =>
             /\ d.count = Cardinality(inflight)
             /\ d.reasons = [i \in 1..d.count |-> RateReason(500 + i, 500 + i)]
             /\ \E first \in inflight : first.ord = 1 /\ d.firstSeen = first.now

\* all calls have written, and an update was lost between two of them
C26_Witness ==
  /\ Cardinality(inflight) = MaxAppends
  /\ \A call \in inflight : call.pc = "done"
  /\ Plain \in DOMAIN suspicious
  /\ suspicious[Plain].data.count = 2
  /\ suspicious[Plain].data.firstSeen < suspicious[Plain].data.lastSeen

(***************************************************************************)
(* getStats beside concurrent writers of the registry.  Its three reads    *)
(* (hlen, keys, hgetall) are steps of their own; the call in flight is     *)
(* kept in inflight with what it has read.                                 *)
(***************************************************************************)
\* const totalBlocked = await redis.hlen(BLOCKED_IPS_KEY)
GetStatsHlen ==
  /\ UNCHANGED application
  /\ Cardinality(inflight) < MaxInflight
  /\ inflight' = inflight \cup
                   {[pc |-> "keys", totalBlocked |-> Cardinality(DOMAIN blocked),
                     suspiciousIps |-> 0]}
  /\ lastOp' = [op |-> "getStats.hlen"]
  /\ UNCHANGED <<now, redis, isConnected, req, suspicious, blocked, attempts,
                 details, metrics, sortedSet, stats, hist>>

\* const suspiciousKeys = await redis.keys(suspiciousPattern)
GetStatsKeys(call) ==
  /\ UNCHANGED application
  /\ call.pc = "keys"
  /\ inflight' = (inflight \ {call})
                   \cup {[call EXCEPT !.pc = "hgetall",
                                      !.suspiciousIps =
                                         Cardinality(DOMAIN attempts)]}
  /\ lastOp' = [op |-> "getStats.keys"]
  /\ UNCHANGED <<now, redis, isConnected, req, suspicious, blocked, attempts,
                 details, metrics, sortedSet, stats, hist>>

\* const blockedData = await redis.hgetall(BLOCKED_IPS_KEY), and the return
GetStatsHgetall(call) ==
  /\ UNCHANGED application
  /\ call.pc = "hgetall"
  /\ inflight' = inflight \ {call}
  /\ LET temporaryBlocks ==
           Cardinality({ip \in DOMAIN blocked : blocked[ip].isTemporary})
     IN  lastOp' = [op |-> "getStats.return",
                    ret |-> [totalBlocked |-> call.totalBlocked,
                             temporaryBlocks |-> temporaryBlocks,
                             permanentBlocks |->
                               call.totalBlocked - temporaryBlocks,
                             suspiciousIps |-> call.suspiciousIps]]
  /\ UNCHANGED <<now, redis, isConnected, req, suspicious, blocked, attempts,
                 details, metrics, sortedSet, stats, hist>>

NextStats ==
  \/ \E c \in Clients, dur \in { NoDuration, Minutes(60) } :
       BlockIp(c, <<"abuse">>, dur, NoFail)
  \/ \E c \in Clients : UnblockIp(c, NoFail)
  \/ \E ips \in (SUBSET Clients) \ {{}} :
       ImportMaliciousIpList(ips, <<"Known malicious IP">>, NoFail)
  \/ \E a \in Activities : TrackSuspiciousActivity(Plain, a, NoFail)
  \/ GetStatsHlen
  \/ \E call \in inflight : GetStatsKeys(call)
  \/ \E call \in inflight : GetStatsHgetall(call)

SpecStats == InitLedger /\ [][NextStats]_vars

\* C27 (SpecStats): in every interleaving of getStats with blockIp,
\* unblockIp and importMaliciousIpList the returned values satisfy
\* temporaryBlocks >= 0, permanentBlocks >= 0 and totalBlocked =
\* temporaryBlocks + permanentBlocks; permanentBlocks, as the number of
\* permanent records of a registry state that existed during the call, is
\* at most the number of clients.
C27_StatsAreConsistent ==
  lastOp.op = "getStats.return" =>
    /\ lastOp.ret.temporaryBlocks >= 0
    /\ lastOp.ret.permanentBlocks >= 0
    /\ lastOp.ret.permanentBlocks <= Cardinality(Clients)
    /\ lastOp.ret.totalBlocked =
         lastOp.ret.temporaryBlocks + lastOp.ret.permanentBlocks

(***************************************************************************)
(* C28: executeOperation under connection loss                             *)
(***************************************************************************)
\* the messages of the errors caught during a step
CaughtMessages(log) == { log[i].msg : i \in LogOps(log, "error") }

\* C28 (SpecDown): no call of executeOperation throws; while isAvailable() is
\* false the operation is not invoked (no command is reached, the store and
\* the flag stay as they are, isBlocked returns its fallback false); a caught
\* connection-class error clears the flag, any other caught error returns
\* the fallback and leaves the flag as it was; and the flag is raised again
\* only by a connect or ready event.
C28_FailOpenUntilReconnect ==
  [][ /\ ("avail" \in DOMAIN lastOp') =>
           /\ ~lastOp'.threw
           /\ ~(isConnected /\ redis) =>
                /\ ~HasError(lastOp'.log)
                /\ Stored(World)' = Stored(World)
                /\ isConnected' = isConnected
                /\ lastOp'.op = "isBlocked" => lastOp'.ret = FALSE
           /\ HasError(lastOp'.log) =>
                /\ lastOp'.op = "isBlocked" => lastOp'.ret = FALSE
                /\ isConnected' =
                     IF \E m \in CaughtMessages(lastOp'.log) :
                          m \in { "ECONNRESET", "ECONNREFUSED",
                                  "MaxRetriesPerRequestError",
                                  "Connection is closed" }
                     THEN FALSE ELSE isConnected
      /\ (isConnected' /\ ~isConnected) => lastOp'.op = "connect" ]_vars

\* isBlocked caught a connection-class error on a blocked client: it answered
\* false and the store is marked unavailable
C28_Witness ==
  /\ lastOp.op = "isBlocked"
  /\ lastOp.avail
  /\ \E m \in CaughtMessages(lastOp.log) : IsConnectionError(m)
  /\ lastOp.ret = FALSE
  /\ lastOp.ip \in DOMAIN blocked
  /\ redis
  /\ ~isConnected

(***************************************************************************)
(* C29: the remaining requests of shouldRateLimit                          *)
(***************************************************************************)
\* the number of trackRequest calls for clientIp, made one after the other
\* from W without the clock moving, that return isBlocked = false before the
\* first one that returns true (at most k of them are tried)
RECURSIVE FurtherUnblocked(_, _, _)
FurtherUnblocked(W, clientIp, k) ==
  IF k = 0 THEN 0
  ELSE CHOOSE n \in { IF r.ret.isBlocked THEN 0
                       ELSE 1 + FurtherUnblocked(r.W, clientIp, k - 1) :
                       r \in { trackRequest(W, clientIp, NoFail) } } : TRUE

\* the calls tried ahead of a shouldRateLimit answer
MaxLookahead == 4

\* C29 (SpecTrack): with the store available and the hour limit out of reach
\* of the calls counted, the remainingRequests returned by shouldRateLimit(id)
\* is the number of further trackRequest(id) calls in the same minute window
\* that return isBlocked = false, and shouldLimit is true exactly when that
\* number is 0.  The calls are counted up to MaxLookahead of them; beyond
\* that, in every state a trackRequest(id) returns isBlocked = false exactly
\* when shouldRateLimit(id) has requests remaining, and it lowers them by one.
C29_RemainingIsUnblockedCalls ==
  /\ (/\ lastOp.op = "shouldRateLimit"
      /\ lastOp.avail
      /\ HourCount(lastOp.ip) + lastOp.ret.remainingRequests
           <= maxRequestsPerHour)
       => LET further == FurtherUnblocked(World, lastOp.ip, MaxLookahead)
              rem == lastOp.ret.remainingRequests
          IN  /\ further = IF rem < MaxLookahead THEN rem ELSE MaxLookahead
              /\ lastOp.ret.shouldLimit = (further = 0)
  /\ \A c \in Clients :
       LET rem == shouldRateLimit(World, c, NoFail).ret.remainingRequests
           r == trackRequest(World, c, NoFail)
       IN  (isAvailable(World) /\ HourCount(c) + rem <= maxRequestsPerHour)
             => /\ r.ret.isBlocked = (rem = 0)
                /\ rem > 0 =>
                     shouldRateLimit(r.W, c, NoFail).ret.remainingRequests
                       = rem - 1

\* shouldRateLimit answered for a client that has made calls in this window
\* and has exactly one request left
C29_Witness ==
  /\ lastOp.op = "shouldRateLimit"
  /\ lastOp.avail
  /\ hist.calls[lastOp.ip].w = Window(now, MinuteMs)
  /\ hist.tracked > 0
  /\ lastOp.ret.remainingRequests = 1
  /\ ~lastOp.ret.shouldLimit

(***************************************************************************)
(* ApplicationService: apply, withdraw and updateStatus on one application *)
(* Each method reads the row with findUnique and writes it with a later    *)
(* update or create; other calls run between the two.  The job is active,  *)
(* OPEN and posted by Poster; the row belongs to Applicant.                *)
(***************************************************************************)
\* the calls that have read the row and not yet written it
MaxPending == 2

Applicant == "applicant"
Poster == "poster"
Users == { Applicant, Poster }

ApplicationStatus == { "PENDING", "REVIEWED", "SHORTLISTED", "ACCEPTED",
                       "REJECTED", "WITHDRAWN" }

allowedTransitions(status) ==
  CASE status = "PENDING" -> { "REVIEWED", "SHORTLISTED", "REJECTED" }
    [] status = "REVIEWED" -> { "SHORTLISTED", "REJECTED" }
    [] status = "SHORTLISTED" -> { "ACCEPTED", "REJECTED" }
    [] OTHER -> {}

CannotWithdraw(status) == status \in { "ACCEPTED", "REJECTED", "WITHDRAWN" }

FreeSlots == (1..MaxPending) \ { call.slot : call \in inflight }

\* the method threw before it wrote
Throws(op, userId, msg) ==
  /\ lastOp' = [op |-> op, user |-> userId, out |-> "fail", msg |-> msg]
  /\ UNCHANGED inflight

\* the method read the row and goes on to write target
Awaiting(op, userId, target) ==
  \E slot \in FreeSlots :
    /\ inflight' = inflight \cup
         { [op |-> op, user |-> userId, slot |-> slot,
            seen |-> application.status, status |-> target] }
    /\ lastOp' = [op |-> op, user |-> userId, out |-> "pending"]

\* the write of the method was done, or rejected
Written(call, ok) ==
  /\ inflight' = inflight \ { call }
  /\ lastOp' = [op |-> call.op, user |-> call.user,
                out |-> IF ok THEN "ok" ELSE "fail", seen |-> call.seen]

ApplicationFrame ==
  UNCHANGED <<now, redis, isConnected, req, suspicious, blocked, attempts,
              details, metrics, sortedSet, stats, hist>>

\* apply, up to the lookup of the existing application
ApplyFindUnique(userId) ==
  /\ application' = application
  /\ ApplicationFrame
  /\ IF userId = Poster
     THEN Throws("apply", userId, "You cannot apply to your own job")
     ELSE IF application.status \notin { "none", "WITHDRAWN" }
     THEN Throws("apply", userId, "You have already applied to this job")
     ELSE Awaiting("apply", userId, "PENDING")

\* apply: the update of a withdrawn row, or the create of a new one, which
\* the unique key (applicantId, jobId) rejects when the row exists
ApplyWrite(call) ==
  /\ call \in inflight
  /\ call.op = "apply"
  /\ ApplicationFrame
  /\ IF call.seen = "WITHDRAWN" \/ application.status = "none"
     THEN /\ application' = [status |-> "PENDING"]
          /\ Written(call, TRUE)
     ELSE /\ application' = application
          /\ Written(call, FALSE)

WithdrawFindUnique(userId) ==
  /\ application' = application
  /\ ApplicationFrame
  /\ IF application = NoApplication
     THEN Throws("withdraw", userId, "Application not found")
     ELSE IF userId # Applicant
     THEN Throws("withdraw", userId,
                 "You can only withdraw your own applications")
     ELSE IF CannotWithdraw(application.status)
     THEN Throws("withdraw", userId, "Cannot withdraw this application")
     ELSE Awaiting("withdraw", userId, "WITHDRAWN")

WithdrawUpdate(call) ==
  /\ call \in inflight
  /\ call.op = "withdraw"
  /\ ApplicationFrame
  /\ application' = [status |-> "WITHDRAWN"]
  /\ Written(call, TRUE)

UpdateStatusFindUnique(userId, status) ==
  /\ application' = application
  /\ ApplicationFrame
  /\ IF application = NoApplication
     THEN Throws("updateStatus", userId, "Application not found")
     ELSE IF userId # Poster
     THEN Throws("updateStatus", userId,
                 "Only the job poster can update application status")
     ELSE IF status \notin allowedTransitions(application.status)
     THEN Throws("updateStatus", userId, "Cannot transition")
     ELSE Awaiting("updateStatus", userId, status)

UpdateStatusUpdate(call) ==
  /\ call \in inflight
  /\ call.op = "updateStatus"
  /\ ApplicationFrame
  /\ application' = [status |-> call.status]
  /\ Written(call, TRUE)

NextApplication ==
  \/ \E userId \in Users : ApplyFindUnique(userId)
  \/ \E call \in inflight : ApplyWrite(call)
  \/ \E userId \in Users : WithdrawFindUnique(userId)
  \/ \E call \in inflight : WithdrawUpdate(call)
  \/ \E userId \in Users, status \in ApplicationStatus :
       UpdateStatusFindUnique(userId, status)
  \/ \E call \in inflight : UpdateStatusUpdate(call)

SpecApplication == InitLedger /\ [][NextApplication]_vars

\* the edges of the status: <<method, status before, status after>>
StatusEdges ==
  { <<"apply", "none", "PENDING">>, <<"apply", "WITHDRAWN", "PENDING">> }
  \cup { <<"withdraw", s, "WITHDRAWN">> :
           s \in { "PENDING", "REVIEWED", "SHORTLISTED" } }
  \cup { <<"updateStatus", "PENDING", s>> :
           s \in { "REVIEWED", "SHORTLISTED", "REJECTED" } }
  \cup { <<"updateStatus", "REVIEWED", s>> :
           s \in { "SHORTLISTED", "REJECTED" } }
  \cup { <<"updateStatus", "SHORTLISTED", s>> :
           s \in { "ACCEPTED", "REJECTED" } }

\* C30 (SpecApplication): for every interleaving of apply, withdraw and
\* updateStatus on one application, a request that succeeds moves the status
\* along one of the edges of StatusEdges (so ACCEPTED and REJECTED are never
\* left), and every other request leaves the status unchanged.
C30_StatusFollowsEdges ==
  [][ lastOp'.op \in { "apply", "withdraw", "updateStatus" } =>
        IF lastOp'.out = "ok"
        THEN <<lastOp'.op, application.status, application'.status>>
               \in StatusEdges
        ELSE application' = application ]_vars

====
